---- MODULE Spec2Model ----
(***************************************************************************)
(* Model of the stronghold communication layer: the P2PNetwork session     *)
(* (src/lib.rs and src/network/mod.rs), the behaviour's event dispatch     *)
(* (src/behaviour/mod.rs, src/behaviour/codec.rs) and the three programs   *)
(* of examples/mailbox.rs: the mailbox, the depositing client and the      *)
(* retrieving client.                                                      *)
(*                                                                         *)
(* Nodes:  "S"  a session driven by arbitrary API calls; its handler is    *)
(*              the PutRecordHandler of examples/mailbox.rs                *)
(*         "M"  the mailbox peer (run_mailbox, MailboxHandler)             *)
(*         "G"  the retrieving client (get_record, GetRecordHandler)       *)
(***************************************************************************)
EXTENDS Integers, Sequences, FiniteSets, TLC

VARIABLES
    impl,        \* which P2PNetwork source the session S is built from
    mailboxes,   \* S: P2PNetwork.mailboxes : Option<Mailboxes>
    dialed,      \* [node -> addresses the node has dialed]
    routing,     \* [node -> <<peer, address>> entries of the node's DHT routing table]
    last,        \* S: the last API call, its arguments, result and effects
    calls,       \* S: number of API calls made so far
    nextRid,     \* S: next RequestId of the request/response protocol
    outstanding, \* S: RequestIds sent and neither answered nor failed
    reqs,        \* requests in flight
    resps,       \* responses in flight
    pending,     \* [node -> events queued inside the request/response protocol]
    kadPending,  \* [node -> events queued inside the DHT protocol]
    produced,    \* [node -> events the sub-protocols produced, in order]
    handled,     \* [node -> events the handler was invoked with, in order]
    printed,     \* [node -> what the handler reported, in order]
    respLog,     \* M: the send_response calls of the handler, in order
    store,       \* M: the records of the local DHT store
    gpc,         \* G: position in get_record
    gArgs,       \* G: the command line arguments
    gMailboxes,  \* G: P2PNetwork.mailboxes
    queries,     \* DHT queries in flight
    nextQid,     \* [node -> next QueryId of the node's DHT protocol]
    peers,       \* [node -> P2PNetworkBehaviour.peers : BTreeMap<PeerId, Multiaddr>]
    mdnsPending, \* [node -> events queued inside the mdns protocol]
    mdnsHandled, \* [node -> mdns events the behaviour was invoked with, in order]
    registered,  \* [node -> the add_peer calls made on the behaviour, in order]
    seenPeers,   \* [node -> the peer directory when the handler was last invoked, and
                 \*          the mdns events dispatched before it in that poll]
    wireIn,      \* the message last handed to the codec for writing
    wire,        \* the frame on the substream: its direction and its bytes
    wireOut,     \* the message the codec read from the frame
    drive,       \* the driving loop of the mailbox: its position, the listening flag,
                 \*   the result of its last poll and the events it printed
    stream,      \* the event stream of the mailbox's swarm: the events ready, all the
                 \*   events produced so far, and whether the stream has ended
    conn,        \* the connection between S and the mailbox
    swarmEvents, \* the swarm events of S that are ready, oldest first
    waited       \* the swarm events the waiting loop of the depositing client received

vars == <<impl, mailboxes, dialed, routing, last, calls, nextRid, outstanding, reqs, resps,
          pending, kadPending, produced, handled, printed, respLog, store,
          gpc, gArgs, gMailboxes, queries, nextQid,
          peers, mdnsPending, mdnsHandled, registered, seenPeers,
          wireIn, wire, wireOut,
          drive, stream, conn, swarmEvents, waited>>

\* the driving loop of the mailbox and the waiting loop of the depositing client
loopVars == <<drive, stream, conn, swarmEvents, waited>>

\* a substream of the message protocol
codecVars == <<wireIn, wire, wireOut>>

\* the peer directory of the behaviour and the mdns protocol that fills it
dirVars == <<peers, mdnsPending, mdnsHandled, registered, seenPeers>>


----------------------------------------------------------------------------
(* Bounds *)

MaxCalls == 4    \* API calls made on the session S
MaxReqs == 2     \* requests sent by S
NetMaxCalls == 3 \* API calls made on S while the transport runs
DirMaxSteps == 4 \* API calls on the swarm of S and events of its mdns protocol
UseMaxCalls == 2 \* API calls of any kind made on S while the transport runs
MaxStream == 3   \* events produced by the stream of the mailbox's swarm

(* Input sets *)

Nodes == {"S", "M", "G"}
PeerIds == {"M", "N"}            \* M runs the mailbox, N is a peer that is not running
AddrOfM == "aM"                  \* the address the mailbox M listens on
Addrs == {AddrOfM, "bad"}        \* "bad": an address the transport refuses to dial
Keys == {"foo", "qux"}
Values == {"bar", "baz"}
NoPeer == "None"                 \* Option<PeerId>::None
NoExpiry == 0                    \* Option<u64>::None of the --expires argument
ExpiresArgs == {NoExpiry, 60}
DefaultExpires == 9000

----------------------------------------------------------------------------
(* Mailboxes *)

Mailbox(peer_id, addr) == [peer_id |-> peer_id, addr |-> addr]

NoMailboxes == [some |-> FALSE, list |-> <<>>, default |-> NoPeer]

MailboxesNew(mailbox) ==
    [some |-> TRUE, list |-> <<mailbox>>, default |-> mailbox.peer_id]

MailboxesAdd(mbs, mailbox, is_default) ==
    [some |-> TRUE,
     list |-> Append(mbs.list, mailbox),
     default |-> IF is_default THEN mailbox.peer_id ELSE mbs.default]

Registered(mbs) == {mbs.list[i].peer_id : i \in 1..Len(mbs.list)}

\* Option<Mailbox>: the peer id of the entry found, or NoPeer
FindMailbox(mbs, peer) == IF peer \in Registered(mbs) THEN peer ELSE NoPeer

GetDefault(mbs) == mbs.default

\* the collection after set_default and the result of the call
MailboxesSetDefault(mbs, peer) ==
    IF FindMailbox(mbs, peer) # NoPeer
    THEN [mbs |-> [mbs EXCEPT !.default = peer], res |-> "Ok"]
    ELSE [mbs |-> mbs, res |-> "Mailbox"]

----------------------------------------------------------------------------
(* Messages *)

MailboxRecord(key, value, expires) ==
    [kind |-> "Publish", key |-> key, value |-> value, expires |-> expires]
Ping == [kind |-> "Ping", key |-> "", value |-> "", expires |-> 0]
Message == [kind |-> "Message", key |-> "", value |-> "", expires |-> 0]

Success == "Success"
ResultResponse(result) == [kind |-> "Result", result |-> result]

\* the steps a session call takes on the transport and the DHT
IoDial(addr) == [act |-> "dial", peer |-> NoPeer, addr |-> addr, rid |-> 0]
IoKadAdd(peer, addr) == [act |-> "kad_add_address", peer |-> peer, addr |-> addr, rid |-> 0]
IoBootstrap == [act |-> "kad_bootstrap", peer |-> NoPeer, addr |-> "", rid |-> 0]
IoSend(peer, rid) == [act |-> "send_request", peer |-> peer, addr |-> "", rid |-> rid]

Call(op, peer, addr, is_default, res, rid, before, io) ==
    [op |-> op, peer |-> peer, addr |-> addr, is_default |-> is_default,
     res |-> res, rid |-> rid, before |-> before, io |-> io]

----------------------------------------------------------------------------
(* Transport and DHT primitives used by the session *)

\* Swarm::dial_addr: refused synchronously for an address that cannot be dialed
DialAddr(addr) == IF addr = AddrOfM THEN "Ok" ELSE "ConnectionError"

\* kad_add_address: the DHT refuses the local peer's own id
KadAddAddress(table, node, peer, addr) ==
    IF peer = node THEN table ELSE table \cup {<<peer, addr>>}

\* kad_bootstrap: fails when the routing table is empty
KadBootstrap(table) == IF table = {} THEN "KademliaError" ELSE "Ok"

\* a node has a route to a peer: the peer runs, and the node dialed its address
\* or holds it in the DHT routing table
Reachable(node, peer) ==
    /\ peer = "M"
    /\ \/ AddrOfM \in dialed[node]
       \/ <<peer, AddrOfM>> \in routing[node]

----------------------------------------------------------------------------
(* The session: src/lib.rs *)

\* add_mailbox that marks the new default before the dial has succeeded
LibAddMailboxStep_DefaultBeforeDial(mbs, dials, mailbox_peer, mailbox_addr, is_default) ==
    LET marked == IF mbs.some /\ is_default THEN [mbs EXCEPT !.default = mailbox_peer] ELSE mbs
    IN IF DialAddr(mailbox_addr) # "Ok"
       THEN [mailboxes |-> marked, dialed |-> dials, res |-> "ConnectionError",
             io |-> <<IoDial(mailbox_addr)>>]
       ELSE [mailboxes |-> IF mbs.some
                           THEN MailboxesAdd(mbs, Mailbox(mailbox_peer, mailbox_addr), is_default)
                           ELSE MailboxesNew(Mailbox(mailbox_peer, mailbox_addr)),
             dialed |-> dials \cup {mailbox_addr},
             res |-> "Ok",
             io |-> <<IoDial(mailbox_addr)>>]

\* add_mailbox that drops the is_default flag, as add_mailbox of network/mod.rs does
LibAddMailboxStep_FlagDropped(mbs, dials, mailbox_peer, mailbox_addr, is_default) ==
    IF DialAddr(mailbox_addr) # "Ok"
    THEN [mailboxes |-> mbs, dialed |-> dials, res |-> "ConnectionError",
          io |-> <<IoDial(mailbox_addr)>>]
    ELSE [mailboxes |-> IF mbs.some
                        THEN MailboxesAdd(mbs, Mailbox(mailbox_peer, mailbox_addr), FALSE)
                        ELSE MailboxesNew(Mailbox(mailbox_peer, mailbox_addr)),
          dialed |-> dials \cup {mailbox_addr},
          res |-> "Ok",
          io |-> <<IoDial(mailbox_addr)>>]

\* P2PNetwork::add_mailbox of lib.rs: [mailboxes, dialed, res, io] after the call
LibAddMailboxStep(mbs, dials, mailbox_peer, mailbox_addr, is_default) ==
    IF DialAddr(mailbox_addr) # "Ok"
    THEN [mailboxes |-> mbs, dialed |-> dials, res |-> "ConnectionError",
          io |-> <<IoDial(mailbox_addr)>>]
    ELSE [mailboxes |-> IF mbs.some
                        THEN MailboxesAdd(mbs, Mailbox(mailbox_peer, mailbox_addr), is_default)
                        ELSE MailboxesNew(Mailbox(mailbox_peer, mailbox_addr)),
          dialed |-> dials \cup {mailbox_addr},
          res |-> "Ok",
          io |-> <<IoDial(mailbox_addr)>>]

\* a session that refuses add_mailbox once a call has returned an error
LibAddMailbox_RefusedAfterError(mailbox_peer, mailbox_addr, is_default) ==
    /\ impl = "lib"
    /\ last.res = "Ok"
    /\ LET r == LibAddMailboxStep(mailboxes, dialed["S"], mailbox_peer, mailbox_addr, is_default)
       IN /\ mailboxes' = r.mailboxes
          /\ dialed' = [dialed EXCEPT !["S"] = r.dialed]
          /\ last' = Call("add_mailbox", mailbox_peer, mailbox_addr, is_default,
                          r.res, 0, mailboxes, r.io)
    /\ calls' = calls + 1
    /\ UNCHANGED <<loopVars, codecVars, dirVars, impl, routing, nextRid, outstanding, reqs, resps, pending, kadPending,
                   produced, handled, printed, respLog, store, gpc, gArgs,
                   gMailboxes, queries, nextQid>>

LibAddMailbox(mailbox_peer, mailbox_addr, is_default) ==
    /\ impl = "lib"
    /\ LET r == LibAddMailboxStep(mailboxes, dialed["S"], mailbox_peer, mailbox_addr, is_default)
       IN /\ mailboxes' = r.mailboxes
          /\ dialed' = [dialed EXCEPT !["S"] = r.dialed]
          /\ last' = Call("add_mailbox", mailbox_peer, mailbox_addr, is_default,
                          r.res, 0, mailboxes, r.io)
    /\ calls' = calls + 1
    /\ UNCHANGED <<loopVars, codecVars, dirVars, impl, routing, nextRid, outstanding, reqs, resps, pending, kadPending,
                   produced, handled, printed, respLog, store, gpc, gArgs,
                   gMailboxes, queries, nextQid>>

\* set_default_mailbox that does not look the peer up
LibSetDefaultMailbox_NoLookup(mailbox_peer) ==
    /\ impl = "lib"
    /\ LET res == IF ~mailboxes.some THEN "Mailbox" ELSE "Ok"
       IN last' = Call("set_default_mailbox", mailbox_peer, "", FALSE, res, 0, mailboxes, <<>>)
    /\ calls' = calls + 1
    /\ UNCHANGED <<loopVars, codecVars, dirVars, impl, mailboxes, dialed, routing, nextRid, outstanding, reqs, resps,
                   pending, kadPending, produced, handled, printed, respLog,
                   store, gpc, gArgs, gMailboxes, queries, nextQid>>

\* P2PNetwork::set_default_mailbox of lib.rs: the default is set on a clone of
\* self.mailboxes, and the clone is dropped when the call returns
LibSetDefaultMailbox(mailbox_peer) ==
    /\ impl = "lib"
    /\ LET res == IF ~mailboxes.some THEN "Mailbox"
                  ELSE MailboxesSetDefault(mailboxes, mailbox_peer).res
       IN last' = Call("set_default_mailbox", mailbox_peer, "", FALSE, res, 0, mailboxes, <<>>)
    /\ calls' = calls + 1
    /\ UNCHANGED <<loopVars, codecVars, dirVars, impl, mailboxes, dialed, routing, nextRid, outstanding, reqs, resps,
                   pending, kadPending, produced, handled, printed, respLog,
                   store, gpc, gArgs, gMailboxes, queries, nextQid>>

\* a request handed to the request/response protocol
RequestInFlight(rid, peer, request) == [rid |-> rid, peer |-> peer, request |-> request]

\* send_record of the behaviour: a Publish request for the record, the expiry
\* defaulting to 9000 seconds
SendRecord(key, value, timeout_sec) ==
    MailboxRecord(key, value, IF timeout_sec = NoExpiry THEN DefaultExpires ELSE timeout_sec)

\* put_record_mailbox that sends to the mailbox added last when no peer is given
LibPutRecordMailbox_ToLatest(key, value, timeout_sec, mailbox_peer_id) ==
    /\ impl = "lib"
    /\ LET peer == IF ~mailboxes.some THEN NoPeer
                   ELSE IF mailbox_peer_id # NoPeer
                        THEN FindMailbox(mailboxes, mailbox_peer_id)
                        ELSE mailboxes.list[Len(mailboxes.list)].peer_id
       IN IF peer = NoPeer
          THEN /\ last' = Call("put_record_mailbox", mailbox_peer_id, "", FALSE,
                               "Mailbox", 0, mailboxes, <<>>)
               /\ UNCHANGED <<nextRid, outstanding, reqs>>
          ELSE /\ nextRid <= MaxReqs
               /\ reqs' = reqs \cup {RequestInFlight(nextRid, peer,
                                                     SendRecord(key, value, timeout_sec))}
               /\ outstanding' = outstanding \cup {nextRid}
               /\ nextRid' = nextRid + 1
               /\ last' = Call("put_record_mailbox", mailbox_peer_id, "", FALSE,
                               "Ok", nextRid, mailboxes, <<IoSend(peer, nextRid)>>)
    /\ calls' = calls + 1
    /\ UNCHANGED <<loopVars, codecVars, dirVars, impl, mailboxes, dialed, routing, resps, pending, kadPending, produced,
                   handled, printed, respLog, store, gpc, gArgs, gMailboxes,
                   queries, nextQid>>

\* put_record_mailbox that sends to the given peer without a mailbox collection
LibPutRecordMailbox_NoCollection(key, value, timeout_sec, mailbox_peer_id) ==
    /\ impl = "lib"
    /\ LET peer == IF ~mailboxes.some THEN mailbox_peer_id
                   ELSE IF mailbox_peer_id # NoPeer
                        THEN FindMailbox(mailboxes, mailbox_peer_id)
                        ELSE GetDefault(mailboxes)
       IN IF peer = NoPeer
          THEN /\ last' = Call("put_record_mailbox", mailbox_peer_id, "", FALSE,
                               "Mailbox", 0, mailboxes, <<>>)
               /\ UNCHANGED <<nextRid, outstanding, reqs>>
          ELSE /\ nextRid <= MaxReqs
               /\ reqs' = reqs \cup {RequestInFlight(nextRid, peer,
                                                     SendRecord(key, value, timeout_sec))}
               /\ outstanding' = outstanding \cup {nextRid}
               /\ nextRid' = nextRid + 1
               /\ last' = Call("put_record_mailbox", mailbox_peer_id, "", FALSE,
                               "Ok", nextRid, mailboxes, <<IoSend(peer, nextRid)>>)
    /\ calls' = calls + 1
    /\ UNCHANGED <<loopVars, codecVars, dirVars, impl, mailboxes, dialed, routing, resps, pending, kadPending, produced,
                   handled, printed, respLog, store, gpc, gArgs, gMailboxes,
                   queries, nextQid>>

\* P2PNetwork::put_record_mailbox of lib.rs
LibPutRecordMailbox(key, value, timeout_sec, mailbox_peer_id) ==
    /\ impl = "lib"
    /\ LET peer == IF ~mailboxes.some THEN NoPeer
                   ELSE IF mailbox_peer_id # NoPeer
                        THEN FindMailbox(mailboxes, mailbox_peer_id)
                        ELSE GetDefault(mailboxes)
       IN IF peer = NoPeer
          THEN /\ last' = Call("put_record_mailbox", mailbox_peer_id, "", FALSE,
                               "Mailbox", 0, mailboxes, <<>>)
               /\ UNCHANGED <<nextRid, outstanding, reqs>>
          ELSE /\ nextRid <= MaxReqs
               /\ reqs' = reqs \cup {RequestInFlight(nextRid, peer,
                                                     SendRecord(key, value, timeout_sec))}
               /\ outstanding' = outstanding \cup {nextRid}
               /\ nextRid' = nextRid + 1
               /\ last' = Call("put_record_mailbox", mailbox_peer_id, "", FALSE,
                               "Ok", nextRid, mailboxes, <<IoSend(peer, nextRid)>>)
    /\ calls' = calls + 1
    /\ UNCHANGED <<loopVars, codecVars, dirVars, impl, mailboxes, dialed, routing, resps, pending, kadPending, produced,
                   handled, printed, respLog, store, gpc, gArgs, gMailboxes,
                   queries, nextQid>>

----------------------------------------------------------------------------
(* The session: src/network/mod.rs *)

Query(id, node, kind, key) == [id |-> id, node |-> node, kind |-> kind, key |-> key]

\* kad_bootstrap returned Ok(QueryId): the bootstrap query runs
StartBootstrap(qs, qids, node, res) ==
    IF res = "Ok" THEN qs \cup {Query(qids[node], node, "Bootstrap", "")} ELSE qs

NextQueryId(qids, node, res) ==
    IF res = "Ok" THEN [qids EXCEPT ![node] = @ + 1] ELSE qids

\* P2PNetwork::connect_remote: [routing, res, io] after the call
ConnectRemote(table, node, peer_id, peer_addr) ==
    LET added == KadAddAddress(table, node, peer_id, peer_addr)
    IN [routing |-> added,
        res |-> KadBootstrap(added),
        io |-> <<IoKadAdd(peer_id, peer_addr), IoBootstrap>>]

\* add_mailbox that registers the mailbox before connect_remote has returned
NetAddMailboxStep_AddBeforeConnect(mbs, table, node, mailbox_peer, mailbox_addr) ==
    LET c == ConnectRemote(table, node, mailbox_peer, mailbox_addr)
    IN [mailboxes |-> IF mbs.some
                      THEN MailboxesAdd(mbs, Mailbox(mailbox_peer, mailbox_addr), FALSE)
                      ELSE MailboxesNew(Mailbox(mailbox_peer, mailbox_addr)),
        routing |-> c.routing, res |-> c.res, io |-> c.io]

\* P2PNetwork::add_mailbox of network/mod.rs: [mailboxes, routing, res, io] after the call
NetAddMailboxStep(mbs, table, node, mailbox_peer, mailbox_addr) ==
    LET c == ConnectRemote(table, node, mailbox_peer, mailbox_addr)
    IN IF c.res # "Ok"
       THEN [mailboxes |-> mbs, routing |-> c.routing, res |-> c.res, io |-> c.io]
       ELSE [mailboxes |-> IF mbs.some
                           THEN MailboxesAdd(mbs, Mailbox(mailbox_peer, mailbox_addr), FALSE)
                           ELSE MailboxesNew(Mailbox(mailbox_peer, mailbox_addr)),
             routing |-> c.routing, res |-> "Ok", io |-> c.io]

NetAddMailbox(mailbox_peer, mailbox_addr) ==
    /\ impl = "network"
    /\ LET r == NetAddMailboxStep(mailboxes, routing["S"], "S", mailbox_peer, mailbox_addr)
       IN /\ mailboxes' = r.mailboxes
          /\ routing' = [routing EXCEPT !["S"] = r.routing]
          /\ last' = Call("add_mailbox", mailbox_peer, mailbox_addr, FALSE,
                          r.res, 0, mailboxes, r.io)
          /\ queries' = StartBootstrap(queries, nextQid, "S", r.res)
          /\ nextQid' = NextQueryId(nextQid, "S", r.res)
    /\ calls' = calls + 1
    /\ UNCHANGED <<loopVars, codecVars, dirVars, impl, dialed, nextRid, outstanding, reqs, resps, pending, kadPending,
                   produced, handled, printed, respLog, store, gpc, gArgs,
                   gMailboxes>>

\* P2PNetwork::set_default_mailbox of network/mod.rs: as in lib.rs, the default is
\* set on a clone that is dropped when the call returns
NetSetDefaultMailbox(mailbox_peer) ==
    /\ impl = "network"
    /\ LET res == IF ~mailboxes.some THEN "Mailbox"
                  ELSE MailboxesSetDefault(mailboxes, mailbox_peer).res
       IN last' = Call("set_default_mailbox", mailbox_peer, "", FALSE, res, 0, mailboxes, <<>>)
    /\ calls' = calls + 1
    /\ UNCHANGED <<loopVars, codecVars, dirVars, impl, mailboxes, dialed, routing, nextRid, outstanding, reqs, resps,
                   pending, kadPending, produced, handled, printed, respLog,
                   store, gpc, gArgs, gMailboxes, queries, nextQid>>

\* put_record_mailbox that falls back to the default for an unknown mailbox peer
NetPutRecordMailbox_Fallback(key, value, expires, mailbox_peer_id) ==
    /\ impl = "network"
    /\ LET record == MailboxRecord(key, value,
                                   IF expires = NoExpiry THEN DefaultExpires ELSE expires)
           peer == IF ~mailboxes.some THEN NoPeer
                   ELSE IF mailbox_peer_id # NoPeer
                           /\ FindMailbox(mailboxes, mailbox_peer_id) # NoPeer
                        THEN mailbox_peer_id
                        ELSE GetDefault(mailboxes)
       IN IF peer = NoPeer
          THEN /\ last' = Call("put_record_mailbox", mailbox_peer_id, "", FALSE,
                               "Mailbox", 0, mailboxes, <<>>)
               /\ UNCHANGED <<nextRid, outstanding, reqs>>
          ELSE /\ nextRid <= MaxReqs
               /\ reqs' = reqs \cup {RequestInFlight(nextRid, peer, record)}
               /\ outstanding' = outstanding \cup {nextRid}
               /\ nextRid' = nextRid + 1
               /\ last' = Call("put_record_mailbox", mailbox_peer_id, "", FALSE,
                               "Ok", nextRid, mailboxes, <<IoSend(peer, nextRid)>>)
    /\ calls' = calls + 1
    /\ UNCHANGED <<loopVars, codecVars, dirVars, impl, mailboxes, dialed, routing, resps, pending, kadPending, produced,
                   handled, printed, respLog, store, gpc, gArgs, gMailboxes,
                   queries, nextQid>>

\* P2PNetwork::put_record_mailbox of network/mod.rs; the caller builds the record
\* as put_record of examples/mailbox.rs does (expires.unwrap_or(9000))
NetPutRecordMailbox(key, value, expires, mailbox_peer_id) ==
    /\ impl = "network"
    /\ LET record == MailboxRecord(key, value,
                                   IF expires = NoExpiry THEN DefaultExpires ELSE expires)
           peer == IF ~mailboxes.some THEN NoPeer
                   ELSE IF mailbox_peer_id # NoPeer
                        THEN FindMailbox(mailboxes, mailbox_peer_id)
                        ELSE GetDefault(mailboxes)
       IN IF peer = NoPeer
          THEN /\ last' = Call("put_record_mailbox", mailbox_peer_id, "", FALSE,
                               "Mailbox", 0, mailboxes, <<>>)
               /\ UNCHANGED <<nextRid, outstanding, reqs>>
          ELSE /\ nextRid <= MaxReqs
               /\ reqs' = reqs \cup {RequestInFlight(nextRid, peer, record)}
               /\ outstanding' = outstanding \cup {nextRid}
               /\ nextRid' = nextRid + 1
               /\ last' = Call("put_record_mailbox", mailbox_peer_id, "", FALSE,
                               "Ok", nextRid, mailboxes, <<IoSend(peer, nextRid)>>)
    /\ calls' = calls + 1
    /\ UNCHANGED <<loopVars, codecVars, dirVars, impl, mailboxes, dialed, routing, resps, pending, kadPending, produced,
                   handled, printed, respLog, store, gpc, gArgs, gMailboxes,
                   queries, nextQid>>

----------------------------------------------------------------------------
(* The behaviour: src/behaviour/mod.rs *)

\* a send_request that returns the same RequestId for every request
send_request_SameId(peer_id, request) ==
    /\ nextRid <= MaxReqs
    /\ reqs' = reqs \cup {RequestInFlight(nextRid, peer_id, request)}
    /\ outstanding' = outstanding \cup {nextRid}
    /\ nextRid' = nextRid
    /\ last' = Call("send_request", peer_id, "", FALSE, "Ok", nextRid, mailboxes,
                    <<IoSend(peer_id, nextRid)>>)
    /\ calls' = calls + 1
    /\ UNCHANGED <<loopVars, codecVars, dirVars, impl, mailboxes, dialed, routing, resps, pending, kadPending, produced,
                   handled, printed, respLog, store, gpc, gArgs, gMailboxes,
                   queries, nextQid>>

\* SwarmContext::send_request on the session's swarm; it returns the RequestId
send_request(peer_id, request) ==
    /\ nextRid <= MaxReqs
    /\ reqs' = reqs \cup {RequestInFlight(nextRid, peer_id, request)}
    /\ outstanding' = outstanding \cup {nextRid}
    /\ nextRid' = nextRid + 1
    /\ last' = Call("send_request", peer_id, "", FALSE, "Ok", nextRid, mailboxes,
                    <<IoSend(peer_id, nextRid)>>)
    /\ calls' = calls + 1
    /\ UNCHANGED <<loopVars, codecVars, dirVars, impl, mailboxes, dialed, routing, resps, pending, kadPending, produced,
                   handled, printed, respLog, store, gpc, gArgs, gMailboxes,
                   queries, nextQid>>

NoMsg == [kind |-> "None", key |-> "", value |-> "", expires |-> 0]
NoResp == [kind |-> "None", result |-> ""]

\* RequestResponseEvent::Message { peer, message: Request { request_id, request, channel } };
\* the channel is the one-shot handle of the request request_id
RequestEvent(peer, request_id, request) ==
    [type |-> "Message", kind |-> "Request", peer |-> peer, rid |-> request_id,
     msg |-> request, resp |-> NoResp, records |-> <<>>]

\* RequestResponseEvent::Message { peer, message: Response { request_id, response } }
ResponseEvent(peer, request_id, response) ==
    [type |-> "Message", kind |-> "Response", peer |-> peer, rid |-> request_id,
     msg |-> NoMsg, resp |-> response, records |-> <<>>]

\* RequestResponseEvent::OutboundFailure { peer, request_id, error }
OutboundFailure(peer, request_id, error) ==
    [type |-> "OutboundFailure", kind |-> error, peer |-> peer, rid |-> request_id,
     msg |-> NoMsg, resp |-> NoResp, records |-> <<>>]

\* KademliaEvent::QueryResult { id, result }
QueryResultEvent(id, result, records) ==
    [type |-> "QueryResult", kind |-> result, peer |-> NoPeer, rid |-> id,
     msg |-> NoMsg, resp |-> NoResp, records |-> records]

Report(what, rid, key, value) == [what |-> what, rid |-> rid, key |-> key, value |-> value]

----------------------------------------------------------------------------
(* The peer directory and local discovery: src/behaviour/mod.rs *)

NoAddr == "NoAddr"               \* Option<&Multiaddr>::None

\* BTreeMap::new()
EmptyPeers == [id \in PeerIds |-> NoAddr]

\* the order of the keys of the BTreeMap
PeerOrder == <<"M", "N">>

\* a directory together with the add_peer calls that were made on it
Directory(dir, log) == [peers |-> dir, registered |-> log]

\* an add_peer that keeps the address a peer is already registered with
add_peer_KeepFirst(d, peer_id, addr) ==
    Directory(IF d.peers[peer_id] = NoAddr THEN [d.peers EXCEPT ![peer_id] = addr] ELSE d.peers,
              Append(d.registered, <<peer_id, addr>>))

\* P2PNetworkBehaviour::add_peer: self.peers.insert(peer_id, addr)
add_peer(d, peer_id, addr) ==
    Directory([d.peers EXCEPT ![peer_id] = addr], Append(d.registered, <<peer_id, addr>>))

\* P2PNetworkBehaviour::get_peer_addr
get_peer_addr(dir, peer_id) == dir[peer_id]

\* a listing of every add_peer call instead of the keys
get_all_peers_PerCall(d) == [i \in 1..Len(d.registered) |-> d.registered[i][1]]

\* P2PNetworkBehaviour::get_all_peers: the keys of the map, in key order
get_all_peers(d) == SelectSeq(PeerOrder, LAMBDA id : d.peers[id] # NoAddr)

\* MdnsEvent::Discovered(list) and MdnsEvent::Expired(list)
Discovered(list) == [type |-> "Discovered", list |-> list]
Expired(list) == [type |-> "Expired", list |-> list]

\* for (peer_id, multiaddr) in list { self.add_peer(peer_id, multiaddr) }
RECURSIVE AddPeers(_, _)
AddPeers(d, list) ==
    IF list = <<>> THEN d
    ELSE AddPeers(add_peer(d, Head(list)[1], Head(list)[2]), Tail(list))

\* the directory without the peers of the list
RemovePeers(d, list) ==
    Directory([id \in PeerIds |->
                  IF \E i \in 1..Len(list) : list[i][1] = id THEN NoAddr ELSE d.peers[id]],
              d.registered)

\* an mdns dispatch that drops the peers of an Expired event
inject_mdns_event_Expire(d, event) ==
    IF event.type = "Discovered" THEN AddPeers(d, event.list) ELSE RemovePeers(d, event.list)

\* NetworkBehaviourEventProcess<MdnsEvent>::inject_event
inject_mdns_event(d, event) ==
    IF event.type = "Discovered" THEN AddPeers(d, event.list) ELSE d

\* the poll of the mdns field of the behaviour: every event it has ready is
\* dispatched, in order
RECURSIVE DrainMdns(_, _)
DrainMdns(d, events) ==
    IF events = <<>> THEN d
    ELSE DrainMdns(inject_mdns_event(d, Head(events)), Tail(events))

\* the mdns protocol of the node has an event ready
Discover(node, event) ==
    /\ mdnsPending' = [mdnsPending EXCEPT ![node] = Append(@, event)]
    /\ UNCHANGED <<loopVars, codecVars, impl, mailboxes, dialed, routing, last, calls, nextRid, outstanding,
                   reqs, resps, pending, kadPending, produced, handled, printed, respLog,
                   store, gpc, gArgs, gMailboxes, queries, nextQid,
                   peers, mdnsHandled, registered, seenPeers>>

\* swarm.add_peer(peer_id, addr) called on the session's swarm
AddPeerCall(node, peer_id, addr) ==
    /\ LET d == add_peer(Directory(peers[node], registered[node]), peer_id, addr)
       IN /\ peers' = [peers EXCEPT ![node] = d.peers]
          /\ registered' = [registered EXCEPT ![node] = d.registered]
    /\ last' = Call("add_peer", peer_id, addr, FALSE, "Ok", 0, mailboxes, <<>>)
    /\ calls' = calls + 1
    /\ UNCHANGED <<loopVars, codecVars, impl, mailboxes, dialed, routing, nextRid, outstanding,
                   reqs, resps, pending, kadPending, produced, handled, printed, respLog,
                   store, gpc, gArgs, gMailboxes, queries, nextQid,
                   mdnsPending, mdnsHandled, seenPeers>>

----------------------------------------------------------------------------
(* The message protocol codec: the frames of one request or response *)

\* texts, keys, values and reasons are byte strings
Texts == {<<>>, <<0>>, <<104>>, <<104, 105>>}
ExpiresSecs == {0, 60, DefaultExpires}

\* a message of the wire message set
WireMessage(kind, text, key, value, expires) ==
    [kind |-> kind, text |-> text, key |-> key, value |-> value, expires |-> expires]

RequestPing == WireMessage("Ping", <<>>, <<>>, <<>>, 0)
RequestMessage(text) == WireMessage("Message", text, <<>>, <<>>, 0)
RequestPublish(key, value, expires) == WireMessage("Publish", <<>>, key, value, expires)
ResponsePong == WireMessage("Pong", <<>>, <<>>, <<>>, 0)
ResponseMessage(text) == WireMessage("Message", text, <<>>, <<>>, 0)
ResponseSuccess == WireMessage("Success", <<>>, <<>>, <<>>, 0)
ResponseError(reason) == WireMessage("Error", reason, <<>>, <<>>, 0)

WireRequests ==
    {RequestPing} \cup {RequestMessage(t) : t \in Texts}
       \cup {RequestPublish(k, v, e) : k \in Texts, v \in Texts, e \in ExpiresSecs}
WireResponses ==
    {ResponsePong, ResponseSuccess} \cup {ResponseMessage(t) : t \in Texts}
       \cup {ResponseError(r) : r \in Texts}

NotRead == WireMessage("NotRead", <<>>, <<>>, <<>>, 0)
DecodeError == WireMessage("DecodeError", <<>>, <<>>, <<>>, 0)

\* a 64-bit unsigned integer as eight bytes, least significant first
RECURSIVE ToBytes(_, _)
ToBytes(n, width) ==
    IF width = 0 THEN <<>> ELSE <<n % 256>> \o ToBytes(n \div 256, width - 1)

RECURSIVE FromBytes(_)
FromBytes(bytes) ==
    IF bytes = <<>> THEN 0 ELSE Head(bytes) + 256 * FromBytes(Tail(bytes))

\* a field of a frame: its number, the length of its content, its content; a
\* field whose content is the default (zero, empty) is not written
Field(number, content) ==
    IF content = <<>> THEN <<>> ELSE <<number, Len(content)>> \o content

Scalar(n) == IF n = 0 THEN <<>> ELSE ToBytes(n, 8)

RequestTag(kind) == CASE kind = "Ping" -> 0 [] kind = "Message" -> 1 [] kind = "Publish" -> 2
ResponseTag(kind) ==
    CASE kind = "Pong" -> 0 [] kind = "Message" -> 1 [] kind = "Success" -> 2 [] kind = "Error" -> 3

\* the bytes of a request / a response
EncodeRequest(m) ==
    Field(1, IF RequestTag(m.kind) = 0 THEN <<>> ELSE <<RequestTag(m.kind)>>)
       \o Field(2, m.text) \o Field(3, m.key) \o Field(4, m.value)
       \o Field(5, Scalar(m.expires))
EncodeResponse(m) ==
    Field(1, IF ResponseTag(m.kind) = 0 THEN <<>> ELSE <<ResponseTag(m.kind)>>)
       \o Field(2, m.text)

\* the fields of a frame: [ok, content of the fields 1..5], absent fields empty
NoFields == [ok |-> TRUE, f |-> [n \in 1..5 |-> <<>>]]

RECURSIVE ParseFields(_)
ParseFields(bytes) ==
    IF bytes = <<>> THEN NoFields
    ELSE IF Len(bytes) < 2 \/ bytes[1] \notin 1..5 \/ Len(bytes) < 2 + bytes[2]
         THEN [ok |-> FALSE, f |-> NoFields.f]
         ELSE LET rest == ParseFields(SubSeq(bytes, 3 + bytes[2], Len(bytes)))
              IN [ok |-> rest.ok,
                  f |-> [rest.f EXCEPT ![bytes[1]] = SubSeq(bytes, 3, 2 + bytes[2])]]

\* a decoder that takes a frame without bytes for the end of the stream
DecodeRequest_EmptyIsEof(bytes) ==
    LET p == ParseFields(bytes)
        tag == FromBytes(p.f[1])
    IN IF bytes = <<>> \/ ~p.ok THEN DecodeError
       ELSE CASE tag = 0 -> RequestPing
              [] tag = 1 -> RequestMessage(p.f[2])
              [] tag = 2 -> RequestPublish(p.f[3], p.f[4], FromBytes(p.f[5]))
              [] OTHER -> DecodeError

\* the request / the response of a frame, DecodeError for a malformed frame
DecodeRequest(bytes) ==
    LET p == ParseFields(bytes)
        tag == FromBytes(p.f[1])
    IN IF ~p.ok THEN DecodeError
       ELSE CASE tag = 0 -> RequestPing
              [] tag = 1 -> RequestMessage(p.f[2])
              [] tag = 2 -> RequestPublish(p.f[3], p.f[4], FromBytes(p.f[5]))
              [] OTHER -> DecodeError
DecodeResponse(bytes) ==
    LET p == ParseFields(bytes)
        tag == FromBytes(p.f[1])
    IN IF ~p.ok THEN DecodeError
       ELSE CASE tag = 0 -> ResponsePong
              [] tag = 1 -> ResponseMessage(p.f[2])
              [] tag = 2 -> ResponseSuccess
              [] tag = 3 -> ResponseError(p.f[2])
              [] OTHER -> DecodeError

Frame(direction, bytes) == [direction |-> direction, bytes |-> bytes]
NoFrame == Frame("none", <<>>)

\* what every step of the codec leaves alone
CodecFrame ==
    UNCHANGED <<loopVars, dirVars, impl, mailboxes, dialed, routing, last, calls, nextRid, outstanding,
                reqs, resps, pending, kadPending, produced, handled, printed, respLog,
                store, gpc, gArgs, gMailboxes, queries, nextQid>>

write_request(m) ==
    /\ wireIn' = m
    /\ wire' = Frame("request", EncodeRequest(m))
    /\ wireOut' = NotRead
    /\ CodecFrame

read_request ==
    /\ wire.direction = "request"
    /\ wireOut' = DecodeRequest(wire.bytes)
    /\ wire' = NoFrame
    /\ UNCHANGED wireIn
    /\ CodecFrame

write_response(m) ==
    /\ wireIn' = m
    /\ wire' = Frame("response", EncodeResponse(m))
    /\ wireOut' = NotRead
    /\ CodecFrame

read_response ==
    /\ wire.direction = "response"
    /\ wireOut' = DecodeResponse(wire.bytes)
    /\ wire' = NoFrame
    /\ UNCHANGED wireIn
    /\ CodecFrame

----------------------------------------------------------------------------
(* The driving loop of the mailbox: run_mailbox of examples/mailbox.rs *)

\* the events the stream of the swarm yields
StreamEvents == {"e1", "e2"}

\* the stream of a swarm that has produced nothing
NoStreamEvents == [ready |-> <<>>, all |-> <<>>, ended |-> FALSE]

\* block_on polls the future at once: the first drive step has begun
DriveStart == [pc |-> "polling", listening |-> FALSE, polled |-> "none", log |-> <<>>]

\* network.swarm.poll_next_unpin(cx): the result, the event and the stream after it
poll_next_unpin(s) ==
    IF s.ready # <<>>
    THEN [result |-> "Some", event |-> Head(s.ready), stream |-> [s EXCEPT !.ready = Tail(@)]]
    ELSE IF s.ended
         THEN [result |-> "None", event |-> "", stream |-> s]
         ELSE [result |-> "Pending", event |-> "", stream |-> s]

\* what the steps of the mailbox's loop and of its stream leave alone
DriveFrame ==
    UNCHANGED <<codecVars, dirVars, impl, mailboxes, dialed, routing, last, calls, nextRid,
                outstanding, reqs, resps, pending, kadPending, produced, handled, printed,
                respLog, store, gpc, gArgs, gMailboxes, queries, nextQid,
                conn, swarmEvents, waited>>

\* the swarm has an event ready for the stream
StreamProduces(event) ==
    /\ ~stream.ended
    /\ Len(stream.all) < MaxStream
    /\ stream' = [stream EXCEPT !.ready = Append(@, event), !.all = Append(@, event)]
    /\ UNCHANGED drive
    /\ DriveFrame

\* the stream of the swarm ends
StreamEnds ==
    /\ ~stream.ended
    /\ stream' = [stream EXCEPT !.ended = TRUE]
    /\ UNCHANGED drive
    /\ DriveFrame

\* the executor polls the suspended future again: a drive step begins
DriveWake ==
    /\ drive.pc = "suspended"
    /\ drive' = [drive EXCEPT !.pc = "polling"]
    /\ UNCHANGED stream
    /\ DriveFrame

\* a loop that suspends after the first event of a drive step
DriveIteration_OneEventPerStep ==
    /\ drive.pc = "polling"
    /\ LET r == poll_next_unpin(stream)
       IN /\ stream' = r.stream
          /\ drive' = CASE r.result = "Some" ->
                             [drive EXCEPT !.polled = "Some", !.log = Append(@, r.event),
                                           !.pc = "suspended"]
                        [] r.result = "None" ->
                             [drive EXCEPT !.polled = "None", !.pc = "completed"]
                        [] r.result = "Pending" ->
                             [drive EXCEPT !.polled = "Pending", !.listening = TRUE,
                                           !.pc = "suspended"]
    /\ DriveFrame

\* one iteration of the loop of run_mailbox: the swarm is polled; an event is
\* printed and the loop goes on, the end of the stream completes the future, and
\* Pending prints the listeners once, leaves the loop and returns Poll::Pending
DriveIteration ==
    /\ drive.pc = "polling"
    /\ LET r == poll_next_unpin(stream)
       IN /\ stream' = r.stream
          /\ drive' = CASE r.result = "Some" ->
                             [drive EXCEPT !.polled = "Some", !.log = Append(@, r.event)]
                        [] r.result = "None" ->
                             [drive EXCEPT !.polled = "None", !.pc = "completed"]
                        [] r.result = "Pending" ->
                             [drive EXCEPT !.polled = "Pending", !.listening = TRUE,
                                           !.pc = "suspended"]
    /\ DriveFrame

----------------------------------------------------------------------------
(* The handlers: examples/mailbox.rs *)

NoRecord == [present |-> FALSE, value |-> "", expires |-> 0]

\* put_record_local of the behaviour: the store after the put (ok: the store accepted)
PutRecordLocal(st, record, ok) ==
    IF ok
    THEN [st EXCEPT ![record.key] =
              [present |-> TRUE, value |-> record.value, expires |-> record.expires]]
    ELSE st

\* a mailbox handler that stores the record and does not answer
MailboxHandler_NoReply(event) ==
    IF event.type = "Message" /\ event.kind = "Request" /\ event.msg.kind = "Publish"
    THEN \E ok \in BOOLEAN :
           /\ store' = PutRecordLocal(store, event.msg, ok)
           /\ printed' = [printed EXCEPT !["M"] =
                  Append(@, Report(IF ok THEN "Successfully stored record."
                                         ELSE "Error storing record",
                                   event.rid, event.msg.key, event.msg.value))]
           /\ UNCHANGED <<respLog, resps>>
    ELSE /\ printed' = IF event.type = "Message" THEN printed
                       ELSE [printed EXCEPT !["M"] = Append(@, Report(event.type, event.rid, "", ""))]
         /\ UNCHANGED <<store, respLog, resps>>

\* a mailbox handler that answers a Publish request whatever the local put returned
MailboxHandler_AnswersOnError(event) ==
    IF event.type = "Message" /\ event.kind = "Request" /\ event.msg.kind = "Publish"
    THEN \E ok \in BOOLEAN :
           /\ store' = PutRecordLocal(store, event.msg, ok)
           /\ printed' = [printed EXCEPT !["M"] =
                  Append(@, Report(IF ok THEN "Successfully stored record."
                                         ELSE "Error storing record",
                                   event.rid, event.msg.key, event.msg.value))]
           /\ respLog' = Append(respLog, [rid |-> event.rid,
                                          resp |-> ResultResponse(Success)])
           /\ resps' = resps \cup {[rid |-> event.rid,
                                    resp |-> ResultResponse(Success)]}
    ELSE /\ printed' = IF event.type = "Message" THEN printed
                       ELSE [printed EXCEPT !["M"] = Append(@, Report(event.type, event.rid, "", ""))]
         /\ UNCHANGED <<store, respLog, resps>>

\* a mailbox handler that stores every record with the default expiry
MailboxHandler_OwnExpiry(event) ==
    IF event.type = "Message" /\ event.kind = "Request" /\ event.msg.kind = "Publish"
    THEN \E ok \in BOOLEAN :
           /\ store' = PutRecordLocal(store, MailboxRecord(event.msg.key, event.msg.value,
                                                           DefaultExpires), ok)
           /\ IF ok
              THEN /\ printed' = [printed EXCEPT !["M"] =
                        Append(@, Report("Successfully stored record.", event.rid,
                                        event.msg.key, event.msg.value))]
                   /\ respLog' = Append(respLog, [rid |-> event.rid,
                                                  resp |-> ResultResponse(Success)])
                   /\ resps' = resps \cup {[rid |-> event.rid,
                                            resp |-> ResultResponse(Success)]}
              ELSE /\ printed' = [printed EXCEPT !["M"] =
                        Append(@, Report("Error storing record", event.rid,
                                        event.msg.key, event.msg.value))]
                   /\ UNCHANGED <<respLog, resps>>
    ELSE /\ printed' = IF event.type = "Message" THEN printed
                       ELSE [printed EXCEPT !["M"] = Append(@, Report(event.type, event.rid, "", ""))]
         /\ UNCHANGED <<store, respLog, resps>>

\* MailboxHandler::handle_request_response_event
MailboxHandler(event) ==
    IF event.type = "Message" /\ event.kind = "Request" /\ event.msg.kind = "Publish"
    THEN \E ok \in BOOLEAN :
           /\ store' = PutRecordLocal(store, event.msg, ok)
           /\ IF ok
              THEN /\ printed' = [printed EXCEPT !["M"] =
                        Append(@, Report("Successfully stored record.", event.rid,
                                        event.msg.key, event.msg.value))]
                   /\ respLog' = Append(respLog, [rid |-> event.rid,
                                                  resp |-> ResultResponse(Success)])
                   /\ resps' = resps \cup {[rid |-> event.rid,
                                            resp |-> ResultResponse(Success)]}
              ELSE /\ printed' = [printed EXCEPT !["M"] =
                        Append(@, Report("Error storing record", event.rid,
                                        event.msg.key, event.msg.value))]
                   /\ UNCHANGED <<respLog, resps>>
    ELSE /\ printed' = IF event.type = "Message" THEN printed
                       ELSE [printed EXCEPT !["M"] = Append(@, Report(event.type, event.rid, "", ""))]
         /\ UNCHANGED <<store, respLog, resps>>

\* PutRecordHandler::handle_request_response_event
PutRecordHandler(event) ==
    /\ printed' =
          IF event.type = "Message"
          THEN IF event.kind = "Response" /\ event.resp.kind = "Result"
               THEN [printed EXCEPT !["S"] =
                        Append(@, Report("Received Result", event.rid, event.resp.result, ""))]
               ELSE printed
          ELSE [printed EXCEPT !["S"] = Append(@, Report(event.type, event.rid, "", ""))]
    /\ UNCHANGED <<store, respLog, resps>>

\* GetRecordHandler::handle_request_response_event
GetRecordHandler(event) ==
    /\ printed' =
          IF event.type \in {"OutboundFailure", "InboundFailure"}
          THEN [printed EXCEPT !["G"] = Append(@, Report(event.type, event.rid, "", ""))]
          ELSE printed
    /\ UNCHANGED <<store, respLog, resps>>

RECURSIVE GotRecords(_, _)
GotRecords(rid, records) ==
    IF records = <<>> THEN <<>>
    ELSE <<Report("Got record", rid, Head(records).key, Head(records).value)>>
         \o GotRecords(rid, Tail(records))

\* a handler that reports the key of a record only
GetRecordKademliaHandler_KeyOnly(event) ==
    /\ printed' =
          IF event.type = "QueryResult" /\ event.kind = "GetRecordOk"
          THEN [printed EXCEPT !["G"] =
                   @ \o GotRecords(event.rid, [i \in 1..Len(event.records) |->
                                       [key |-> event.records[i].key, value |-> ""]])]
          ELSE IF event.type = "QueryResult" /\ event.kind = "GetRecordErr"
               THEN [printed EXCEPT !["G"] =
                        Append(@, Report("Failed to get record", event.rid, "", ""))]
               ELSE printed
    /\ UNCHANGED <<store, respLog, resps>>

\* GetRecordHandler::handle_kademlia_event
GetRecordKademliaHandler(event) ==
    /\ printed' =
          IF event.type = "QueryResult" /\ event.kind = "GetRecordOk"
          THEN [printed EXCEPT !["G"] = @ \o GotRecords(event.rid, event.records)]
          ELSE IF event.type = "QueryResult" /\ event.kind = "GetRecordErr"
               THEN [printed EXCEPT !["G"] =
                        Append(@, Report("Failed to get record", event.rid, "", ""))]
               ELSE printed
    /\ UNCHANGED <<store, respLog, resps>>

----------------------------------------------------------------------------
(* Event dispatch: src/behaviour/mod.rs *)

\* the handler type the node's behaviour is instantiated with
handle_request_response_event(node, event) ==
    CASE node = "M" -> MailboxHandler(event)
      [] node = "S" -> PutRecordHandler(event)
      [] node = "G" -> GetRecordHandler(event)

\* handle_kademlia_event is empty in MailboxHandler and PutRecordHandler
handle_kademlia_event(node, event) ==
    CASE node = "G" -> GetRecordKademliaHandler(event)
      [] OTHER -> UNCHANGED <<printed, store, respLog, resps>>

\* a dispatch that hands an event to the handler twice
inject_event_Twice(node, event) ==
    /\ handled' = [handled EXCEPT ![node] = Append(Append(@, event), event)]
    /\ handle_request_response_event(node, event)

\* NetworkBehaviourEventProcess<RequestResponseEvent>::inject_event
inject_event(node, event) ==
    /\ handled' = [handled EXCEPT ![node] = Append(@, event)]
    /\ handle_request_response_event(node, event)

\* NetworkBehaviourEventProcess<KademliaEvent>::inject_event
inject_kademlia_event(node, event) ==
    /\ handled' = [handled EXCEPT ![node] = Append(@, event)]
    /\ handle_kademlia_event(node, event)

\* the poll of the mdns field: [peers, registered] after its events were dispatched
PollMdnsField(node) ==
    DrainMdns(Directory(peers[node], registered[node]), mdnsPending[node])

\* what the handler finds when it is invoked
Seen(dir, cycle) == [peers |-> dir, cycle |-> cycle]

\* a poll that hands the request/response event to the handler before the mdns
\* events of the cycle are dispatched
PollRequestResponse_HandlerFirst(node) ==
    /\ pending[node] # <<>>
    /\ seenPeers' = [seenPeers EXCEPT ![node] = Seen(peers[node], mdnsPending[node])]
    /\ peers' = [peers EXCEPT ![node] = PollMdnsField(node).peers]
    /\ registered' = [registered EXCEPT ![node] = PollMdnsField(node).registered]
    /\ mdnsHandled' = [mdnsHandled EXCEPT ![node] = @ \o mdnsPending[node]]
    /\ mdnsPending' = [mdnsPending EXCEPT ![node] = <<>>]
    /\ pending' = [pending EXCEPT ![node] = Tail(@)]
    /\ produced' = [produced EXCEPT ![node] = Append(@, Head(pending[node]))]
    /\ inject_event(node, Head(pending[node]))
    /\ UNCHANGED <<loopVars, codecVars, impl, mailboxes, dialed, routing, last, calls, nextRid, outstanding,
                   reqs, kadPending, gpc, gArgs, gMailboxes, queries, nextQid>>

\* one poll of the swarm in which the request/response protocol produces an
\* event: the fields of the behaviour are polled in the order of their
\* declaration, mdns before msg_proto, and each event is dispatched when produced
PollRequestResponse(node) ==
    /\ pending[node] # <<>>
    /\ peers' = [peers EXCEPT ![node] = PollMdnsField(node).peers]
    /\ registered' = [registered EXCEPT ![node] = PollMdnsField(node).registered]
    /\ mdnsHandled' = [mdnsHandled EXCEPT ![node] = @ \o mdnsPending[node]]
    /\ mdnsPending' = [mdnsPending EXCEPT ![node] = <<>>]
    /\ seenPeers' = [seenPeers EXCEPT ![node] =
                         Seen(PollMdnsField(node).peers, mdnsPending[node])]
    /\ pending' = [pending EXCEPT ![node] = Tail(@)]
    /\ produced' = [produced EXCEPT ![node] = Append(@, Head(pending[node]))]
    /\ inject_event(node, Head(pending[node]))
    /\ UNCHANGED <<loopVars, codecVars, impl, mailboxes, dialed, routing, last, calls, nextRid, outstanding,
                   reqs, kadPending, gpc, gArgs, gMailboxes, queries, nextQid>>

\* one poll of the swarm in which only the mdns protocol produces events
PollMdns(node) ==
    /\ pending[node] = <<>>
    /\ mdnsPending[node] # <<>>
    /\ peers' = [peers EXCEPT ![node] = PollMdnsField(node).peers]
    /\ registered' = [registered EXCEPT ![node] = PollMdnsField(node).registered]
    /\ mdnsHandled' = [mdnsHandled EXCEPT ![node] = @ \o mdnsPending[node]]
    /\ mdnsPending' = [mdnsPending EXCEPT ![node] = <<>>]
    /\ UNCHANGED <<loopVars, codecVars, impl, mailboxes, dialed, routing, last, calls, nextRid, outstanding,
                   reqs, resps, pending, kadPending, produced, handled, printed, respLog,
                   store, gpc, gArgs, gMailboxes, queries, nextQid, seenPeers>>

\* one poll of the swarm in which the DHT protocol produces an event
PollKademlia(node) ==
    /\ kadPending[node] # <<>>
    /\ kadPending' = [kadPending EXCEPT ![node] = Tail(@)]
    /\ produced' = [produced EXCEPT ![node] = Append(@, Head(kadPending[node]))]
    /\ inject_kademlia_event(node, Head(kadPending[node]))
    /\ UNCHANGED <<loopVars, codecVars, dirVars, impl, mailboxes, dialed, routing, last, calls, nextRid, outstanding,
                   reqs, pending, gpc, gArgs, gMailboxes, queries, nextQid>>

----------------------------------------------------------------------------
(* The transport and the DHT between the nodes *)

\* the request reaches the mailbox: its request/response protocol queues the event
DeliverRequest(r) ==
    /\ r \in reqs
    /\ Reachable("S", r.peer)
    /\ reqs' = reqs \ {r}
    /\ pending' = [pending EXCEPT ![r.peer] = Append(@, RequestEvent("S", r.rid, r.request))]
    /\ UNCHANGED <<loopVars, codecVars, dirVars, impl, mailboxes, dialed, routing, last, calls, nextRid, outstanding,
                   resps, kadPending, produced, handled, printed, respLog, store,
                   gpc, gArgs, gMailboxes, queries, nextQid>>

\* a transport that drops an undeliverable request without an event
FailRequest_Silent(r) ==
    /\ r \in reqs
    /\ ~Reachable("S", r.peer)
    /\ reqs' = reqs \ {r}
    /\ outstanding' = outstanding \ {r.rid}
    /\ UNCHANGED <<loopVars, codecVars, dirVars, impl, mailboxes, dialed, routing, last, calls, nextRid,
                   resps, pending, kadPending, produced, handled, printed, respLog, store,
                   gpc, gArgs, gMailboxes, queries, nextQid>>

\* the peer of the request cannot be reached: the sender's protocol queues the failure
FailRequest(r) ==
    /\ r \in reqs
    /\ ~Reachable("S", r.peer)
    /\ reqs' = reqs \ {r}
    /\ outstanding' = outstanding \ {r.rid}
    /\ pending' = [pending EXCEPT !["S"] = Append(@, OutboundFailure(r.peer, r.rid, "DialFailure"))]
    /\ UNCHANGED <<loopVars, codecVars, dirVars, impl, mailboxes, dialed, routing, last, calls, nextRid,
                   resps, kadPending, produced, handled, printed, respLog, store,
                   gpc, gArgs, gMailboxes, queries, nextQid>>

\* a transport that hands the response to any outstanding request of the sender
DeliverResponse_AnyRequest(p) ==
    /\ p \in resps
    /\ p.rid \in outstanding
    /\ resps' = resps \ {p}
    /\ \E rid \in outstanding :
          /\ outstanding' = outstanding \ {rid}
          /\ pending' = [pending EXCEPT !["S"] = Append(@, ResponseEvent("M", rid, p.resp))]
    /\ UNCHANGED <<loopVars, codecVars, dirVars, impl, mailboxes, dialed, routing, last, calls, nextRid,
                   reqs, kadPending, produced, handled, printed, respLog, store,
                   gpc, gArgs, gMailboxes, queries, nextQid>>

\* the response reaches the sender of the request
DeliverResponse(p) ==
    /\ p \in resps
    /\ p.rid \in outstanding
    /\ resps' = resps \ {p}
    /\ outstanding' = outstanding \ {p.rid}
    /\ pending' = [pending EXCEPT !["S"] = Append(@, ResponseEvent("M", p.rid, p.resp))]
    /\ UNCHANGED <<loopVars, codecVars, dirVars, impl, mailboxes, dialed, routing, last, calls, nextRid,
                   reqs, kadPending, produced, handled, printed, respLog, store,
                   gpc, gArgs, gMailboxes, queries, nextQid>>

\* the requests the mailbox handler returned from without a send_response
Omitted ==
    {handled["M"][i].rid : i \in {j \in 1..Len(handled["M"]) : handled["M"][j].kind = "Request"}}
        \ {respLog[i].rid : i \in 1..Len(respLog)}

\* a transport without a request timeout
ResponseTimeout_Never(rid) ==
    /\ rid \in outstanding
    /\ rid \in Omitted
    /\ FALSE
    /\ UNCHANGED vars

\* the response channel was dropped without a response: the request times out
ResponseTimeout(rid) ==
    /\ rid \in outstanding
    /\ rid \in Omitted
    /\ outstanding' = outstanding \ {rid}
    /\ pending' = [pending EXCEPT !["S"] = Append(@, OutboundFailure("M", rid, "Timeout"))]
    /\ UNCHANGED <<loopVars, codecVars, dirVars, impl, mailboxes, dialed, routing, last, calls, nextRid,
                   reqs, resps, kadPending, produced, handled, printed, respLog, store,
                   gpc, gArgs, gMailboxes, queries, nextQid>>

\* the time to live of a stored record has passed
ExpireRecord(key) ==
    /\ store[key].present
    /\ store' = [store EXCEPT ![key] = NoRecord]
    /\ UNCHANGED <<loopVars, codecVars, dirVars, impl, mailboxes, dialed, routing, last, calls, nextRid, outstanding,
                   reqs, resps, pending, kadPending, produced, handled, printed, respLog,
                   gpc, gArgs, gMailboxes, queries, nextQid>>

\* a get query that reports an absent record as a successful, empty result
GetRecordResult_EmptyOk(q) ==
    IF <<"M", AddrOfM>> \in routing[q.node] /\ store[q.key].present
    THEN QueryResultEvent(q.id, "GetRecordOk",
                          <<[key |-> q.key, value |-> store[q.key].value]>>)
    ELSE QueryResultEvent(q.id, "GetRecordOk", <<>>)

\* the outcome of a get query: the search is successful if a known peer has
\* published a record and it is not expired
GetRecordResult(q) ==
    IF <<"M", AddrOfM>> \in routing[q.node] /\ store[q.key].present
    THEN QueryResultEvent(q.id, "GetRecordOk",
                          <<[key |-> q.key, value |-> store[q.key].value]>>)
    ELSE QueryResultEvent(q.id, "GetRecordErr", <<>>)

\* a DHT query finishes: the DHT protocol of the node queues the result
KadResolve(q) ==
    /\ q \in queries
    /\ queries' = queries \ {q}
    /\ kadPending' = [kadPending EXCEPT ![q.node] =
           Append(@, IF q.kind = "GetRecord" THEN GetRecordResult(q)
                     ELSE QueryResultEvent(q.id, "Bootstrap", <<>>))]
    /\ UNCHANGED <<loopVars, codecVars, dirVars, impl, mailboxes, dialed, routing, last, calls, nextRid, outstanding,
                   reqs, resps, pending, produced, handled, printed, respLog, store,
                   gpc, gArgs, gMailboxes, nextQid>>

----------------------------------------------------------------------------
(* The depositing client: put_record of examples/mailbox.rs *)

\* SwarmEvent::ConnectionEstablished / SwarmEvent::ConnectionClosed
ConnectionEstablished == "ConnectionEstablished"
ConnectionClosed == "ConnectionClosed"

\* the loop of put_record has received a ConnectionClosed event
LoopLeft == \E i \in 1..Len(waited) : waited[i] = ConnectionClosed

\* the position of put_record: add_mailbox(..)? returns its error, the waiting
\* loop is entered only when put_record_mailbox returned Ok, and it is left at
\* a ConnectionClosed event
PutClientPc ==
    IF calls = 0 THEN "start"
    ELSE IF last.res # "Ok" THEN "stopped"
    ELSE IF calls = 1 THEN "added"
    ELSE IF LoopLeft THEN "stopped"
    ELSE "waiting"

\* the swarm of S is polled only inside the waiting loop of put_record
Waiting == PutClientPc = "waiting"

\* what the steps of the connection and of the waiting loop leave alone
ConnFrame ==
    UNCHANGED <<codecVars, dirVars, drive, stream, impl, mailboxes, dialed, routing, last,
                calls, nextRid, resps, kadPending, produced, handled, printed, respLog,
                store, gpc, gArgs, gMailboxes, queries, nextQid>>

\* the swarm of S, which has a route to the mailbox, connects to it
Connect ==
    /\ conn = "none"
    /\ Reachable("S", "M")
    /\ conn' = "open"
    /\ swarmEvents' = Append(swarmEvents, ConnectionEstablished)
    /\ UNCHANGED <<waited, reqs, outstanding, pending>>
    /\ ConnFrame

\* the connection has carried nothing for the keep-alive time of the protocol:
\* no request of S is in flight or unanswered and every event was dispatched
IdleClose ==
    /\ conn = "open"
    /\ outstanding = {}
    /\ reqs = {}
    /\ pending["S"] = <<>>
    /\ conn' = "closed"
    /\ swarmEvents' = Append(swarmEvents, ConnectionClosed)
    /\ UNCHANGED <<waited, reqs, outstanding, pending>>
    /\ ConnFrame

\* the failures of the requests that were on a connection when it closed
LostFailures(rids) ==
    LET ids == SelectSeq([i \in 1..(nextRid - 1) |-> i], LAMBDA i : i \in rids)
    IN [j \in 1..Len(ids) |-> OutboundFailure("M", ids[j], "ConnectionClosed")]

\* the connection breaks or the mailbox goes away: the swarm reports
\* ConnectionClosed and the protocol queues the failure of every request that
\* was on the connection
ConnectionLost ==
    /\ conn = "open"
    /\ conn' = "closed"
    /\ swarmEvents' = Append(swarmEvents, ConnectionClosed)
    /\ LET others == {r \in reqs : r.peer # "M"}
           lost == outstanding \ {r.rid : r \in others}
       IN /\ reqs' = others
          /\ outstanding' = outstanding \ lost
          /\ pending' = [pending EXCEPT !["S"] = @ \o LostFailures(lost)]
    /\ UNCHANGED waited
    /\ ConnFrame

\* one iteration of the waiting loop: network.swarm.next_event().await
NextEvent ==
    /\ Waiting
    /\ swarmEvents # <<>>
    /\ waited' = Append(waited, Head(swarmEvents))
    /\ swarmEvents' = Tail(swarmEvents)
    /\ UNCHANGED <<conn, reqs, outstanding, pending>>
    /\ ConnFrame

----------------------------------------------------------------------------
(* The retrieving client: get_record of examples/mailbox.rs *)

\* network.add_mailbox(mail_id, mail_addr)?
GAddMailbox(mail_id, mail_addr, key) ==
    /\ gpc = "start"
    /\ gArgs' = [mail_id |-> mail_id, mail_addr |-> mail_addr, key |-> key]
    /\ LET r == NetAddMailboxStep(gMailboxes, routing["G"], "G", mail_id, mail_addr)
       IN /\ gMailboxes' = r.mailboxes
          /\ routing' = [routing EXCEPT !["G"] = r.routing]
          /\ queries' = StartBootstrap(queries, nextQid, "G", r.res)
          /\ nextQid' = NextQueryId(nextQid, "G", r.res)
          /\ gpc' = IF r.res = "Ok" THEN "connected" ELSE "done"
    /\ UNCHANGED <<loopVars, codecVars, dirVars, impl, mailboxes, dialed, last, calls, nextRid, outstanding, reqs, resps,
                   pending, kadPending, produced, handled, printed, respLog, store>>

\* network.swarm.get_record(key)
GGetRecord ==
    /\ gpc = "connected"
    /\ gpc' = "waiting"
    /\ queries' = queries \cup {Query(nextQid["G"], "G", "GetRecord", gArgs.key)}
    /\ nextQid' = [nextQid EXCEPT !["G"] = @ + 1]
    /\ UNCHANGED <<loopVars, codecVars, dirVars, impl, mailboxes, dialed, routing, last, calls, nextRid, outstanding,
                   reqs, resps, pending, kadPending, produced, handled, printed, respLog,
                   store, gArgs, gMailboxes>>

----------------------------------------------------------------------------
(* Construction *)

NoMailboxArg == <<NoPeer, "">>

\* a construction that keeps the bootstrap mailbox whenever its dial succeeded
LibNew_MailboxAfterDial(_mailbox) ==
    IF _mailbox = NoMailboxArg
    THEN [mailboxes |-> NoMailboxes, dialed |-> {}, routing |-> {}, io |-> <<>>,
          bootstrap |-> "None"]
    ELSE IF DialAddr(_mailbox[2]) # "Ok"
         THEN [mailboxes |-> NoMailboxes, dialed |-> {}, routing |-> {},
               io |-> <<IoDial(_mailbox[2])>>, bootstrap |-> "None"]
         ELSE LET added == KadAddAddress({}, "S", _mailbox[1], _mailbox[2])
              IN [mailboxes |-> MailboxesNew(Mailbox(_mailbox[1], _mailbox[2])),
                  dialed |-> {_mailbox[2]},
                  routing |-> added,
                  io |-> <<IoDial(_mailbox[2]), IoKadAdd(_mailbox[1], _mailbox[2]),
                           IoBootstrap>>,
                  bootstrap |-> KadBootstrap(added)]

\* P2PNetwork::new of lib.rs with the optional bootstrap mailbox:
\* [mailboxes, dialed, routing, io] of the new session
LibNew(_mailbox) ==
    IF _mailbox = NoMailboxArg
    THEN [mailboxes |-> NoMailboxes, dialed |-> {}, routing |-> {}, io |-> <<>>,
          bootstrap |-> "None"]
    ELSE IF DialAddr(_mailbox[2]) # "Ok"
         THEN [mailboxes |-> NoMailboxes, dialed |-> {}, routing |-> {},
               io |-> <<IoDial(_mailbox[2])>>, bootstrap |-> "None"]
         ELSE LET added == KadAddAddress({}, "S", _mailbox[1], _mailbox[2])
              IN [mailboxes |-> IF KadBootstrap(added) = "Ok"
                                THEN MailboxesNew(Mailbox(_mailbox[1], _mailbox[2]))
                                ELSE NoMailboxes,
                  dialed |-> {_mailbox[2]},
                  routing |-> added,
                  io |-> <<IoDial(_mailbox[2]), IoKadAdd(_mailbox[1], _mailbox[2]),
                           IoBootstrap>>,
                  bootstrap |-> KadBootstrap(added)]

\* P2PNetwork::new of network/mod.rs
NetNew == [mailboxes |-> NoMailboxes, dialed |-> {}, routing |-> {}, io |-> <<>>,
           bootstrap |-> "None"]

LocalPeerIds == PeerIds \cup {"S"}

Init ==
    /\ impl \in {"lib", "network"}
    /\ \E _mailbox \in IF impl = "lib" THEN {NoMailboxArg} \cup (LocalPeerIds \X Addrs)
                                         ELSE {NoMailboxArg} :
          LET n == IF impl = "lib" THEN LibNew(_mailbox) ELSE NetNew
          IN /\ mailboxes = n.mailboxes
             /\ dialed = [node \in Nodes |-> IF node = "S" THEN n.dialed ELSE {}]
             /\ routing = [node \in Nodes |-> IF node = "S" THEN n.routing ELSE {}]
             /\ last = Call("new", _mailbox[1], _mailbox[2], FALSE, "Ok", 0, NoMailboxes, n.io)
             /\ queries = StartBootstrap({}, [node \in Nodes |-> 1], "S", n.bootstrap)
             /\ nextQid = NextQueryId([node \in Nodes |-> 1], "S", n.bootstrap)
    /\ calls = 0
    /\ nextRid = 1
    /\ outstanding = {}
    /\ reqs = {}
    /\ resps = {}
    /\ pending = [node \in Nodes |-> <<>>]
    /\ kadPending = [node \in Nodes |-> <<>>]
    /\ produced = [node \in Nodes |-> <<>>]
    /\ handled = [node \in Nodes |-> <<>>]
    /\ printed = [node \in Nodes |-> <<>>]
    /\ respLog = <<>>
    /\ store = [key \in Keys |-> NoRecord]
    /\ gpc = "start"
    /\ gArgs = [mail_id |-> NoPeer, mail_addr |-> "", key |-> ""]
    /\ gMailboxes = NoMailboxes
    /\ peers = [node \in Nodes |-> EmptyPeers]
    /\ mdnsPending = [node \in Nodes |-> <<>>]
    /\ mdnsHandled = [node \in Nodes |-> <<>>]
    /\ registered = [node \in Nodes |-> <<>>]
    /\ seenPeers = [node \in Nodes |-> Seen(EmptyPeers, <<>>)]
    /\ wireIn = NotRead
    /\ wire = NoFrame
    /\ wireOut = NotRead
    /\ drive = DriveStart
    /\ stream = NoStreamEvents
    /\ conn = "none"
    /\ swarmEvents = <<>>
    /\ waited = <<>>

\* the deposits made in the model
Records == {<<"foo", "bar", NoExpiry>>, <<"foo", "baz", 60>>}

\* the calls made on the session S, with any arguments
SessionCalls ==
    \/ \E p \in LocalPeerIds, a \in Addrs, d \in BOOLEAN : LibAddMailbox(p, a, d)
    \/ \E p \in LocalPeerIds : LibSetDefaultMailbox(p)
    \/ \E r \in Records, p \in LocalPeerIds \cup {NoPeer} :
          LibPutRecordMailbox(r[1], r[2], r[3], p)
    \/ \E p \in LocalPeerIds, a \in Addrs : NetAddMailbox(p, a)
    \/ \E p \in LocalPeerIds : NetSetDefaultMailbox(p)
    \/ \E r \in Records, p \in LocalPeerIds \cup {NoPeer} :
          NetPutRecordMailbox(r[1], r[2], r[3], p)
    \/ \E p \in PeerIds, m \in {Ping, Message} : send_request(p, m)

Next == calls < MaxCalls /\ SessionCalls

Spec == Init /\ [][Next]_vars

\* the session S registers mailboxes and sends requests; the request/response
\* protocol, the mailbox and the handlers run
NetCalls ==
    \/ \E p \in PeerIds, a \in Addrs : LibAddMailbox(p, a, FALSE)
    \/ \E r \in Records, p \in PeerIds \cup {NoPeer} : LibPutRecordMailbox(r[1], r[2], r[3], p)
    \/ \E p \in PeerIds, a \in Addrs : NetAddMailbox(p, a)
    \/ \E r \in Records, p \in PeerIds \cup {NoPeer} : NetPutRecordMailbox(r[1], r[2], r[3], p)
    \/ \E p \in PeerIds, m \in {Ping, Message} : send_request(p, m)

Transport ==
    \/ \E r \in reqs : DeliverRequest(r)
    \/ \E r \in reqs : FailRequest(r)
    \/ \E p \in resps : DeliverResponse(p)
    \/ \E rid \in outstanding : ResponseTimeout(rid)
    \/ \E node \in Nodes : PollRequestResponse(node)

NetNext ==
    \/ calls < NetMaxCalls /\ NetCalls
    \/ Transport

NetSpec == Init /\ [][NetNext]_vars

\* the depositing client of examples/mailbox.rs (put_record): it creates the
\* session without a bootstrap mailbox, registers the mailbox given on the
\* command line and, when that succeeded, deposits one record on it
GetInit == Init /\ last.peer = NoPeer

PutRecordProgram ==
    \/ \E p \in PeerIds, a \in Addrs : calls = 0 /\ LibAddMailbox(p, a, FALSE)
    \/ \E p \in PeerIds, a \in Addrs : calls = 0 /\ NetAddMailbox(p, a)
    \/ \E r \in Records :
          /\ calls = 1 /\ last.res = "Ok"
          /\ LibPutRecordMailbox(r[1], r[2], r[3], last.peer)
    \/ \E r \in Records :
          /\ calls = 1 /\ last.res = "Ok"
          /\ NetPutRecordMailbox(r[1], r[2], r[3], last.peer)

Retrieval ==
    \/ \E p \in {"M", "G"}, a \in Addrs, k \in Keys : GAddMailbox(p, a, k)
    \/ GGetRecord
    \/ \E q \in queries : KadResolve(q)
    \/ \E node \in Nodes : PollKademlia(node)
    \/ \E k \in Keys : ExpireRecord(k)

GetNext ==
    \/ PutRecordProgram
    \/ Transport
    \/ Retrieval

GetSpec == GetInit /\ [][GetNext]_vars

\* the lists of an mdns event: one peer under one address, one peer under two
\* addresses in either order, two peers
DiscoveryLists ==
    { << <<"M", AddrOfM>> >>,
      << <<"N", "bad">> >>,
      << <<"M", AddrOfM>>, <<"M", "bad">> >>,
      << <<"M", "bad">>, <<"M", AddrOfM>> >>,
      << <<"M", AddrOfM>>, <<"N", "bad">> >> }

MdnsEvents ==
    {Discovered(l) : l \in DiscoveryLists} \cup {Expired(<< <<"M", AddrOfM>> >>)}

\* the swarm of a session without mailboxes: peers are registered by hand and
\* by discovery while requests are sent and their events dispatched
DirCalls ==
    \/ \E p \in PeerIds, a \in Addrs : AddPeerCall("S", p, a)
    \/ \E p \in PeerIds : send_request(p, Ping)

\* the API calls made and the mdns events produced so far
DirSteps == calls + Len(mdnsHandled["S"]) + Len(mdnsPending["S"])

DirNext ==
    \/ DirSteps < DirMaxSteps /\ DirCalls
    \/ DirSteps < DirMaxSteps /\ \E e \in MdnsEvents : Discover("S", e)
    \/ \E r \in reqs : FailRequest(r)
    \/ \E node \in Nodes : PollRequestResponse(node)
    \/ PollMdns("S")

\* the session of lib.rs, created without a bootstrap mailbox
DirInit == GetInit /\ impl = "lib"

DirSpec == DirInit /\ [][DirNext]_vars

\* the session of lib.rs, created without a bootstrap mailbox, registers
\* mailboxes, deposits records and sends requests while the transport runs
SendCalls ==
    \/ \E p \in PeerIds, a \in Addrs : LibAddMailbox(p, a, FALSE)
    \/ \E r \in Records, p \in PeerIds \cup {NoPeer} : LibPutRecordMailbox(r[1], r[2], r[3], p)
    \/ \E p \in PeerIds : send_request(p, Ping)

SendNext ==
    \/ calls < NetMaxCalls /\ SendCalls
    \/ Transport

SendSpec == DirInit /\ [][SendNext]_vars

\* a session of either source, with any bootstrap mailbox, on which any call is
\* made while the transport runs
UseNext ==
    \/ calls < UseMaxCalls /\ SessionCalls
    \/ Transport

UseSpec == Init /\ [][UseNext]_vars

\* the mailbox of examples/mailbox.rs is driven while its swarm produces events
DriveNext ==
    \/ \E event \in StreamEvents : StreamProduces(event)
    \/ StreamEnds
    \/ DriveWake
    \/ DriveIteration

DriveSpec == DirInit /\ [][DriveNext]_vars

\* put_record of examples/mailbox.rs runs against the mailbox: the swarm of S
\* makes progress only while the client is in its waiting loop
PutNext ==
    \/ PutRecordProgram
    \/ Waiting /\ Connect
    \/ \E r \in reqs : Waiting /\ conn = "open" /\ DeliverRequest(r)
    \/ \E r \in reqs : Waiting /\ FailRequest(r)
    \/ \E p \in resps : Waiting /\ conn = "open" /\ DeliverResponse(p)
    \/ \E rid \in outstanding : Waiting /\ ResponseTimeout(rid)
    \/ Waiting /\ PollRequestResponse("S")
    \/ PollRequestResponse("M")
    \/ IdleClose
    \/ ConnectionLost
    \/ NextEvent

PutSpec == GetInit /\ [][PutNext]_vars

\* one substream at a time: a message is written, the frame is read
CodecNext ==
    \/ \E m \in WireRequests : write_request(m)
    \/ read_request
    \/ \E m \in WireResponses : write_response(m)
    \/ read_response

CodecSpec == DirInit /\ [][CodecNext]_vars

----------------------------------------------------------------------------
(* Properties of the session *)

\* C1: whenever the session has mailboxes, the collection is not empty and
\* exactly one registered mailbox peer is the default; after the first
\* successful add_mailbox on a session without mailboxes the default is the
\* mailbox just added.
C1_ExactlyOneDefault ==
    /\ mailboxes.some =>
          /\ mailboxes.list # <<>>
          /\ Cardinality({p \in Registered(mailboxes) : p = mailboxes.default}) = 1
    /\ (last.op = "add_mailbox" /\ last.res = "Ok" /\ ~last.before.some) =>
          /\ mailboxes.some
          /\ mailboxes.default = last.peer

\* several mailboxes are registered, a failed add_mailbox among the calls
C1_Witness ==
    /\ last.op = "add_mailbox"
    /\ last.res # "Ok"
    /\ last.is_default
    /\ Cardinality(Registered(mailboxes)) >= 2

\* C2: after set_default_mailbox(p) returned Ok the session's default mailbox
\* is p, and a following put_record_mailbox without a mailbox peer sends its
\* request to p.
C2_SetDefaultTakesEffect ==
    [][/\ (last'.op = "set_default_mailbox" /\ last'.res = "Ok") =>
             mailboxes'.default = last'.peer
       /\ (/\ last.op = "set_default_mailbox" /\ last.res = "Ok"
           /\ calls' = calls + 1
           /\ last'.op = "put_record_mailbox" /\ last'.peer = NoPeer) =>
             last'.io = <<IoSend(last.peer, last'.rid)>>]_vars

\* C3: without mailboxes set_default_mailbox and the default lookup of
\* put_record_mailbox fail with a Mailbox error; set_default_mailbox for a peer
\* that is not registered fails with a Mailbox error and leaves the collection
\* and its default as they were.
C3_DefaultErrors ==
    /\ (last.op = "set_default_mailbox" /\ ~last.before.some) => last.res = "Mailbox"
    /\ (last.op = "put_record_mailbox" /\ last.peer = NoPeer /\ ~last.before.some) =>
          last.res = "Mailbox"
    /\ (/\ last.op = "set_default_mailbox" /\ last.before.some
        /\ last.peer \notin Registered(last.before)) =>
          /\ last.res = "Mailbox"
          /\ mailboxes = last.before

\* set_default_mailbox was called for an unregistered peer on a session with mailboxes
C3_Witness ==
    /\ last.op = "set_default_mailbox"
    /\ last.before.some
    /\ last.peer \notin Registered(last.before)
    /\ last.res = "Mailbox"

\* C4: put_record_mailbox on a session without mailboxes returns a Mailbox
\* error, and the call sends no request, starts no dial and issues no DHT
\* operation.
C4_NoMailboxFailsFast ==
    [][(calls' = calls + 1 /\ last'.op = "put_record_mailbox" /\ ~mailboxes.some) =>
          /\ last'.res = "Mailbox"
          /\ last'.io = <<>>
          /\ UNCHANGED <<reqs, outstanding, nextRid, dialed, routing, queries, nextQid>>]_vars

\* put_record_mailbox was called with an explicit peer on a session without mailboxes
C4_Witness ==
    /\ last.op = "put_record_mailbox"
    /\ ~last.before.some
    /\ last.peer # NoPeer
    /\ last.res = "Mailbox"

\* C5: put_record_mailbox with an explicit mailbox peer that is not registered
\* returns a Mailbox error and sends no request, also when other mailboxes and
\* a default are registered.
C5_UnknownMailboxPeer ==
    [][(/\ calls' = calls + 1 /\ last'.op = "put_record_mailbox"
        /\ last'.peer # NoPeer /\ last'.peer \notin Registered(mailboxes)) =>
          /\ last'.res = "Mailbox"
          /\ last'.io = <<>>
          /\ UNCHANGED <<reqs, outstanding, nextRid>>]_vars

\* put_record_mailbox was called for an unregistered peer while a default was registered
C5_Witness ==
    /\ last.op = "put_record_mailbox"
    /\ last.before.some
    /\ last.before.default \in Registered(last.before)
    /\ last.peer # NoPeer
    /\ last.peer \notin Registered(last.before)
    /\ last.res = "Mailbox"

----------------------------------------------------------------------------
(* Properties of the deposit *)

FairNetSpec ==
    /\ NetSpec
    /\ WF_vars(\E r \in reqs : DeliverRequest(r))
    /\ WF_vars(\E r \in reqs : FailRequest(r))
    /\ WF_vars(\E p \in resps : DeliverResponse(p))
    /\ WF_vars(\E rid \in outstanding : ResponseTimeout(rid))
    /\ \A node \in Nodes : WF_vars(PollRequestResponse(node))

Indices(seq) == 1..Len(seq)

\* the Publish requests the mailbox handler was invoked with
PublishHandled == {i \in Indices(handled["M"]) :
                     handled["M"][i].kind = "Request" /\ handled["M"][i].msg.kind = "Publish"}

\* the local put of the request rid returned ok / an error
StoredOk(rid) ==
    \E i \in Indices(printed["M"]) :
        printed["M"][i].what = "Successfully stored record." /\ printed["M"][i].rid = rid
StoreFailed(rid) ==
    \E i \in Indices(printed["M"]) :
        printed["M"][i].what = "Error storing record" /\ printed["M"][i].rid = rid

\* C6: for every Publish request the mailbox handler received it has sent
\* exactly one response on the request's channel, Result(Success) when the
\* local put succeeded and Result(Error(reason)) when it failed.
C6_EveryPublishAnswered ==
    \A i \in PublishHandled :
        LET rid == handled["M"][i].rid
            answers == {j \in Indices(respLog) : respLog[j].rid = rid}
        IN /\ Cardinality(answers) = 1
           /\ \A j \in answers :
                 /\ respLog[j].resp.kind = "Result"
                 /\ StoredOk(rid) => respLog[j].resp.result = Success
                 /\ StoreFailed(rid) => respLog[j].resp.result # Success

\* put_record_mailbox returned the RequestId rid of a request sent to the
\* reachable mailbox M
Deposited(rid) ==
    /\ last.op = "put_record_mailbox"
    /\ last.res = "Ok"
    /\ last.rid = rid
    /\ last.io = <<IoSend("M", rid)>>
    /\ "M" \in Registered(mailboxes)
    /\ Reachable("S", "M")

\* the Result lines the client's handler reported for the request rid
ResultsSeen(rid) ==
    {i \in Indices(printed["S"]) :
        printed["S"][i].what = "Received Result" /\ printed["S"][i].rid = rid}

SuccessSeen(rid) ==
    \E i \in ResultsSeen(rid) : printed["S"][i].key = Success

\* C7: when put_record_mailbox sent a request to a registered, reachable
\* mailbox and returned its RequestId, and the mailbox's local put of that
\* request succeeds, the client's handler eventually reports Result(Success)
\* for that RequestId; it reports a Result for a RequestId at most once.
C7_DepositAnswered ==
    /\ \A rid \in 1..MaxReqs : Deposited(rid) ~> (SuccessSeen(rid) \/ StoreFailed(rid))
    /\ [](\A rid \in 1..MaxReqs : Cardinality(ResultsSeen(rid)) <= 1)

\* the handler reported the Success of a deposit made through the default mailbox
C7_Witness ==
    /\ last.op = "put_record_mailbox"
    /\ last.peer = NoPeer
    /\ SuccessSeen(last.rid)

----------------------------------------------------------------------------
(* Properties of the retrieval and of the dispatch *)

FairGetSpec ==
    /\ GetSpec
    /\ WF_vars(\E r \in reqs : DeliverRequest(r))
    /\ WF_vars(\E r \in reqs : FailRequest(r))
    /\ WF_vars(\E p \in resps : DeliverResponse(p))
    /\ WF_vars(\E rid \in outstanding : ResponseTimeout(rid))
    /\ WF_vars(\E q \in queries : KadResolve(q))
    /\ \A node \in Nodes : WF_vars(PollRequestResponse(node))
    /\ \A node \in Nodes : WF_vars(PollKademlia(node))

\* the mailbox holds the record (key, value): it is stored and not expired
Holds(key, value) == store[key].present /\ store[key].value = value

\* a deposit of (key, value) was answered with Result(Success)
AnsweredSuccess(key, value) ==
    \E i \in PublishHandled, j \in Indices(respLog) :
        /\ handled["M"][i].msg.key = key
        /\ handled["M"][i].msg.value = value
        /\ respLog[j].rid = handled["M"][i].rid
        /\ respLog[j].resp = ResultResponse(Success)

\* G registered the mailbox M under its address and its get for key is running
GetRunning(key) ==
    /\ "M" \in Registered(gMailboxes)
    /\ <<"M", AddrOfM>> \in routing["G"]
    /\ \E q \in queries : q.node = "G" /\ q.kind = "GetRecord" /\ q.key = key

\* the records the handler of G reported
GotLines == {i \in Indices(printed["G"]) : printed["G"][i].what = "Got record"}

GotRecord(key, value) ==
    \E i \in GotLines : printed["G"][i].key = key /\ printed["G"][i].value = value

\* the get results the handler of G was invoked with
GetResults == {i \in Indices(handled["G"]) :
                 handled["G"][i].kind \in {"GetRecordOk", "GetRecordErr"}}

\* C8: when a peer that registered M runs a DHT get for k while M holds the
\* record (k, v) of a deposit answered with Success, its handler eventually
\* receives the result and reports the record (k, v), unless the record
\* expires before the get is answered; a successful get result carries
\* exactly one record, with the key asked for and a deposited value.
C8_RetrievalAfterDeposit ==
    /\ \A k \in Keys, v \in Values :
          (GetRunning(k) /\ Holds(k, v) /\ AnsweredSuccess(k, v))
             ~> (GotRecord(k, v) \/ ~Holds(k, v))
    /\ [](\A i \in GetResults :
             handled["G"][i].kind = "GetRecordOk" =>
                /\ Len(handled["G"][i].records) = 1
                /\ handled["G"][i].records[1].key = gArgs.key
                /\ AnsweredSuccess(gArgs.key, handled["G"][i].records[1].value)
                /\ GotRecord(gArgs.key, handled["G"][i].records[1].value)
                /\ Cardinality(GotLines) = 1)

\* the handler of G reported the deposited record
C8_Witness ==
    /\ gArgs.key = "foo"
    /\ GotRecord("foo", "bar")
    /\ AnsweredSuccess("foo", "bar")

\* no deposit of the key was ever stored by the mailbox
NeverStored(key) ==
    ~\E i \in Indices(printed["M"]) :
        printed["M"][i].what = "Successfully stored record." /\ printed["M"][i].key = key

C10_HandledAsProduced ==
    \A node \in Nodes : handled[node] = produced[node]

\* the session handled a DHT event and a response, the retrieving client two DHT events
C10_Witness ==
    /\ \E i, j \in Indices(handled["S"]) :
          /\ handled["S"][i].type = "QueryResult"
          /\ handled["S"][j].type = "Message"
    /\ Len(handled["G"]) = 2
    /\ Len(handled["M"]) = 1

----------------------------------------------------------------------------
(* Properties of the peer directory *)

\* the (peer, address) pairs of the Discovered events among the events, in order
RECURSIVE DiscoveredPairs(_)
DiscoveredPairs(events) ==
    IF events = <<>> THEN <<>>
    ELSE (IF Head(events).type = "Discovered" THEN Head(events).list ELSE <<>>)
         \o DiscoveredPairs(Tail(events))

\* the address of the last pair of the peer among the pairs, NoAddr without one
LastAddr(pairs, id) ==
    LET at == {i \in Indices(pairs) : pairs[i][1] = id}
    IN IF at = {} THEN NoAddr
       ELSE pairs[CHOOSE i \in at : \A j \in at : j <= i][2]

\* C11: when the handler is invoked for a request/response event, every peer
\* listed by a discovery event that was produced before it in the same poll
\* is in the peer directory, under the address the poll's discovery events
\* listed last for it.
C11_DiscoveryBeforeHandler ==
    \A node \in Nodes :
        LET pairs == DiscoveredPairs(seenPeers[node].cycle)
        IN \A i \in Indices(pairs) :
              /\ get_peer_addr(seenPeers[node].peers, pairs[i][1]) # NoAddr
              /\ get_peer_addr(seenPeers[node].peers, pairs[i][1]) = LastAddr(pairs, pairs[i][1])

\* the handler of S was invoked for an OutboundFailure in a poll that had
\* dispatched two discovery events before it
C11_Witness ==
    /\ handled["S"] # <<>>
    /\ handled["S"][Len(handled["S"])].type = "OutboundFailure"
    /\ Len(seenPeers["S"].cycle) = 2
    /\ Len(DiscoveredPairs(seenPeers["S"].cycle)) >= 3

\* C12: get_peer_addr(id) is the address of the most recent registration of
\* id, by add_peer or by a discovery event, and absent when there is none; when
\* only discovery has registered peers it is the address listed last for id
\* in the discovery events dispatched, so the last one of a list that names
\* the peer several times.
C12_LastWriteWins ==
    \A node \in Nodes, id \in PeerIds :
        /\ get_peer_addr(peers[node], id) = LastAddr(registered[node], id)
        /\ Len(registered[node]) = Len(DiscoveredPairs(mdnsHandled[node])) =>
              get_peer_addr(peers[node], id) = LastAddr(DiscoveredPairs(mdnsHandled[node]), id)

\* M was discovered under one address and registered by add_peer under another
C12_Witness ==
    /\ LastAddr(DiscoveredPairs(mdnsHandled["S"]), "M") = AddrOfM
    /\ last.op = "add_peer" /\ last.peer = "M" /\ last.addr = "bad"
    /\ get_peer_addr(peers["S"], "M") = "bad"
    /\ Len(registered["S"]) >= 3

\* the registrations made in a step
NewRegistrations(node) ==
    SubSeq(registered'[node], Len(registered[node]) + 1, Len(registered'[node]))

\* C13: no step removes a peer from the directory, a discovery Expired event
\* included; the address of a peer changes only in a step that registers the
\* peer, and then to the address registered last.
C13_NeverShrinks ==
    [][\A node \in Nodes, id \in PeerIds :
          /\ get_peer_addr(peers[node], id) # NoAddr => get_peer_addr(peers'[node], id) # NoAddr
          /\ get_peer_addr(peers'[node], id) # get_peer_addr(peers[node], id) =>
                get_peer_addr(peers'[node], id) = LastAddr(NewRegistrations(node), id)]_vars

\* an Expired event for M was dispatched after M had been discovered
C13_Witness ==
    /\ Len(mdnsHandled["S"]) = 2
    /\ mdnsHandled["S"][1].type = "Discovered"
    /\ mdnsHandled["S"][1].list[1][1] = "M"
    /\ mdnsHandled["S"][2] = Expired(<< <<"M", AddrOfM>> >>)
    /\ get_peer_addr(peers["S"], "M") # NoAddr

\* the peers get_all_peers lists
AllPeers(node) == get_all_peers(Directory(peers[node], registered[node]))

\* C14: the directory of a behaviour on which nothing was registered is
\* empty; get_all_peers lists exactly the peers that were registered, each
\* once; get_peer_addr(id) is present exactly for the peers listed; after
\* add_peer(id, addr) the peer is listed and its address present.
C14_AllPeersAreTheRegistered ==
    \A node \in Nodes :
        /\ registered[node] = <<>> => AllPeers(node) = <<>>
        /\ {AllPeers(node)[i] : i \in Indices(AllPeers(node))}
              = {registered[node][i][1] : i \in Indices(registered[node])}
        /\ \A i, j \in Indices(AllPeers(node)) : AllPeers(node)[i] = AllPeers(node)[j] => i = j
        /\ \A id \in PeerIds :
              get_peer_addr(peers[node], id) # NoAddr
                 <=> \E i \in Indices(AllPeers(node)) : AllPeers(node)[i] = id
        /\ (node = "S" /\ last.op = "add_peer") =>
              /\ \E i \in Indices(AllPeers(node)) : AllPeers(node)[i] = last.peer
              /\ get_peer_addr(peers[node], last.peer) # NoAddr

\* add_peer was called for a peer registered before, with two peers in the directory
C14_Witness ==
    /\ last.op = "add_peer"
    /\ Len(AllPeers("S")) = 2
    /\ Cardinality({i \in Indices(registered["S"]) : registered["S"][i][1] = last.peer}) >= 2

----------------------------------------------------------------------------
(* Properties of the request/response protocol *)

\* the events the request/response protocol of S has queued or produced
EventsOfS == produced["S"] \o pending["S"]

\* the Response events / terminal events of S for the request rid
ResponsesFor(rid) ==
    {i \in Indices(EventsOfS) : EventsOfS[i].kind = "Response" /\ EventsOfS[i].rid = rid}
OutcomesFor(rid) ==
    {i \in Indices(EventsOfS) :
        /\ EventsOfS[i].rid = rid
        /\ EventsOfS[i].kind = "Response" \/ EventsOfS[i].type = "OutboundFailure"}

\* the step queues an event for the request/response protocol of S
Queued(event) == pending'["S"] = Append(pending["S"], event)

\* C15: the requests of S that are in flight have pairwise distinct
\* RequestIds and a send returns a RequestId that no outstanding request has;
\* a Response is delivered to S only for a RequestId that is outstanding, which
\* then is no longer outstanding; no request receives two Responses.
C15_ResponsesCorrelate ==
    /\ [](\A r1, r2 \in reqs : r1.rid = r2.rid => r1 = r2)
    /\ [](\A rid \in 1..MaxReqs : Cardinality(ResponsesFor(rid)) <= 1)
    /\ [][/\ \A rid \in outstanding' \ outstanding :
                /\ rid = last'.rid
                /\ \A r \in reqs : r.rid # rid
          /\ \A p \in resps : Queued(ResponseEvent("M", p.rid, p.resp)) =>
                /\ p.rid \in outstanding
                /\ p.rid \notin outstanding'
                /\ p.rid < nextRid]_vars

\* two requests of S were outstanding together and both were answered
C15_Witness ==
    /\ ResponsesFor(1) # {}
    /\ ResponsesFor(2) # {}
    /\ Len(handled["M"]) = 2
    /\ handled["M"][1].rid = 2
    /\ handled["M"][2].rid = 1

\* the inbound requests the handler of M was invoked with
RequestsHandled == {i \in Indices(handled["M"]) : handled["M"][i].kind = "Request"}

\* C16: the handler of M has called send_response at most once per inbound
\* request and only for requests it was invoked with; every response in
\* flight or delivered to S carries the RequestId of the request on whose
\* channel it was sent, and comes from the peer that request was sent to.
C16_ChannelIsOneShot ==
    /\ \A i, j \in Indices(respLog) : respLog[i].rid = respLog[j].rid => i = j
    /\ \A i \in Indices(respLog) : \E j \in RequestsHandled :
          /\ handled["M"][j].rid = respLog[i].rid
          /\ handled["M"][j].peer = "S"
    /\ \A p \in resps : \E i \in Indices(respLog) : respLog[i] = p
    /\ \A i \in Indices(EventsOfS) : EventsOfS[i].kind = "Response" =>
          /\ EventsOfS[i].peer = "M"
          /\ \E j \in Indices(respLog) :
                /\ respLog[j].rid = EventsOfS[i].rid
                /\ respLog[j].resp = EventsOfS[i].resp

\* a response was delivered while another request of S was outstanding
C16_Witness ==
    /\ Len(respLog) = 1
    /\ ResponsesFor(respLog[1].rid) # {}
    /\ outstanding # {}

\* the handler of S reported an OutboundFailure for the request rid
FailureSeen(rid) ==
    \E i \in Indices(printed["S"]) :
        printed["S"][i].what = "OutboundFailure" /\ printed["S"][i].rid = rid

\* the request rid is in flight to a peer S has no route to
Undeliverable(rid) == \E r \in reqs : r.rid = rid /\ ~Reachable("S", r.peer)

FairSendSpec ==
    /\ SendSpec
    /\ WF_vars(\E r \in reqs : DeliverRequest(r))
    /\ WF_vars(\E r \in reqs : FailRequest(r))
    /\ WF_vars(\E p \in resps : DeliverResponse(p))
    /\ WF_vars(\E rid \in outstanding : ResponseTimeout(rid))
    /\ \A node \in Nodes : WF_vars(PollRequestResponse(node))

\* C17: send_request returns Ok with a RequestId for every peer, reachable or
\* not, and hands the request to the protocol; a request in flight to a peer
\* that stays unreachable, and a request whose channel the remote handler
\* dropped, is eventually reported to the handler of S as an OutboundFailure
\* with the RequestId send_request returned.
C17_SendNeverFailsSynchronously ==
    /\ [][(calls' = calls + 1 /\ last'.op = "send_request") =>
             /\ last'.res = "Ok"
             /\ last'.rid = nextRid
             /\ last'.rid \in outstanding'
             /\ \E r \in reqs' \ reqs : r.rid = last'.rid /\ r.peer = last'.peer]_vars
    /\ \A rid \in 1..MaxReqs :
          Undeliverable(rid) ~> (FailureSeen(rid) \/ \E r \in reqs : r.rid = rid /\ Reachable("S", r.peer))
    /\ \A rid \in 1..MaxReqs : (rid \in outstanding /\ rid \in Omitted) ~> FailureSeen(rid)
    /\ [](\A i \in Indices(EventsOfS) : EventsOfS[i].type = "OutboundFailure" =>
             EventsOfS[i].rid < nextRid /\ EventsOfS[i].rid \notin outstanding)

\* send_request to the unknown peer N returned a RequestId and the handler
\* of S reported the OutboundFailure for it
C17_Witness ==
    /\ last.op = "send_request"
    /\ last.peer = "N"
    /\ FailureSeen(last.rid)

\* the handler of S was invoked with a terminal event of the request rid
OutcomeHandled(rid) ==
    \E i \in Indices(handled["S"]) :
        /\ handled["S"][i].rid = rid
        /\ handled["S"][i].kind = "Response" \/ handled["S"][i].type = "OutboundFailure"

\* C18: every outstanding request eventually stops being outstanding and its
\* Response or OutboundFailure is handed to the handler of S, also when the
\* remote handler never answers; a request has at most one such outcome, and
\* exactly one once it is no longer outstanding.
C18_EveryRequestTerminates ==
    /\ \A rid \in 1..MaxReqs :
          (rid \in outstanding) ~> (rid \notin outstanding /\ OutcomeHandled(rid))
    /\ [](\A rid \in 1..MaxReqs :
             /\ Cardinality(OutcomesFor(rid)) <= 1
             /\ (rid < nextRid /\ rid \notin outstanding) => Cardinality(OutcomesFor(rid)) = 1)

\* a request the handler of M did not answer ended with the Timeout failure at S
C18_Witness ==
    \E i \in Indices(handled["S"]) :
        /\ handled["S"][i].type = "OutboundFailure"
        /\ handled["S"][i].kind = "Timeout"
        /\ handled["S"][i].rid \in Omitted

----------------------------------------------------------------------------
(* Properties of connecting *)

\* the dials of the last call that the transport refused
FailedDials ==
    {i \in Indices(last.io) : last.io[i].act = "dial" /\ DialAddr(last.io[i].addr) # "Ok"}

\* C19: a call that made a dial the transport refused, the construction of
\* the session with a bootstrap mailbox included, has returned a
\* ConnectionError to its caller, and it has dialed once, without a retry.
C19_DialFailureIsReturned ==
    FailedDials # {} =>
        /\ last.res = "ConnectionError"
        /\ Cardinality({i \in Indices(last.io) : last.io[i].act = "dial"}) = 1

\* C20: a successful add_mailbox(peer, addr) has dialed addr, added
\* (peer, addr) to the DHT routing table and started a DHT bootstrap, in that
\* order, and the mailbox is in the collection afterwards.
C20_AddMailboxDialsAndBootstraps ==
    (last.op = "add_mailbox" /\ last.res = "Ok") =>
        /\ last.io = <<IoDial(last.addr), IoKadAdd(last.peer, last.addr), IoBootstrap>>
        /\ last.addr \in dialed["S"]
        /\ <<last.peer, last.addr>> \in routing["S"]
        /\ last.peer \in Registered(mailboxes)

----------------------------------------------------------------------------
(* Properties of the session under errors *)

\* every operation of the session can be called
OperationsEnabled ==
    /\ impl = "lib" =>
          /\ \A p \in PeerIds, a \in Addrs, d \in BOOLEAN : ENABLED LibAddMailbox(p, a, d)
          /\ \A p \in PeerIds : ENABLED LibSetDefaultMailbox(p)
          /\ \A r \in Records, p \in PeerIds \cup {NoPeer} :
                nextRid <= MaxReqs => ENABLED LibPutRecordMailbox(r[1], r[2], r[3], p)
    /\ impl = "network" =>
          /\ \A p \in PeerIds, a \in Addrs : ENABLED NetAddMailbox(p, a)
          /\ \A p \in PeerIds : ENABLED NetSetDefaultMailbox(p)
          /\ \A r \in Records, p \in PeerIds \cup {NoPeer} :
                nextRid <= MaxReqs => ENABLED NetPutRecordMailbox(r[1], r[2], r[3], p)
    /\ \A p \in PeerIds : nextRid <= MaxReqs => ENABLED send_request(p, Ping)

\* the step is a call of the operation op on the session
CallOf(op) == calls' = calls + 1 /\ last'.op = op

----------------------------------------------------------------------------
(* Properties of the codec *)

\* C22: the message read from a frame is the message that was written to it,
\* for every request and every response, the Ping and the Pong that are
\* written as a frame without bytes included.
C22_CodecRoundTrip ==
    /\ wireOut # NotRead => wireOut = wireIn
    /\ \A m \in WireRequests : DecodeRequest(EncodeRequest(m)) = m
    /\ \A m \in WireResponses : DecodeResponse(EncodeResponse(m)) = m

\* a Ping was written as a frame without bytes and read back
C22_Witness ==
    /\ wireIn = RequestPing
    /\ EncodeRequest(wireIn) = <<>>
    /\ wireOut = RequestPing

----------------------------------------------------------------------------
(* Properties of a deposit call *)

\* C23: a put_record_mailbox that returns Ok sends exactly one request, a
\* Publish, and returns its RequestId; the request goes to the peer passed,
\* which is registered, or to the default mailbox when no peer is passed; the
\* mailbox collection and its default are as before the call.
C23_PutRecordSendsOnePublish ==
    [][(CallOf("put_record_mailbox") /\ last'.res = "Ok") =>
          /\ \E r \in reqs' \ reqs :
                /\ reqs' = reqs \cup {r}
                /\ r.request.kind = "Publish"
                /\ r.rid = last'.rid
                /\ r.rid \notin {q.rid : q \in reqs}
                /\ r.peer = IF last'.peer # NoPeer THEN last'.peer
                                                   ELSE GetDefault(mailboxes)
                /\ last'.io = <<IoSend(r.peer, r.rid)>>
          /\ last'.peer # NoPeer => last'.peer \in Registered(mailboxes)
          /\ mailboxes' = mailboxes]_vars

\* a deposit without a peer on a session with two mailboxes went to the
\* default, which is not the mailbox added last
C23_Witness ==
    /\ last.op = "put_record_mailbox"
    /\ last.res = "Ok"
    /\ last.peer = NoPeer
    /\ Len(mailboxes.list) = 2
    /\ GetDefault(mailboxes) # mailboxes.list[2].peer_id
    /\ \E r \in reqs : r.rid = last.rid /\ r.peer = GetDefault(mailboxes)

----------------------------------------------------------------------------
(* Properties of the construction *)

\* the session was constructed and no call was made on it yet
Constructed == calls = 0 /\ last.op = "new"

\* the position of a step among the steps of the last call, 0 when it was not taken
StepAt(step) ==
    IF \E i \in 1..Len(last.io) : last.io[i] = step
    THEN CHOOSE i \in 1..Len(last.io) : last.io[i] = step
    ELSE 0

\* the DHT bootstrap of the construction succeeded: its query runs
BootstrapStarted == \E q \in queries : q.node = "S" /\ q.kind = "Bootstrap"

\* C25: a session constructed with the bootstrap mailbox (m, a) holds m as its
\* only mailbox and its default exactly when the dial of a and the DHT
\* bootstrap both succeeded, and holds no mailbox otherwise; the address of m
\* is handed to the DHT only after the dial succeeded and the bootstrap is
\* triggered only after that; a session constructed without a bootstrap mailbox
\* holds no mailbox, and a deposit on it returns the Mailbox error.
C25_ConstructionWithBootstrapMailbox ==
    /\ [](Constructed =>
            LET m == last.peer
                a == last.addr
                dial == StepAt(IoDial(a))
                add == StepAt(IoKadAdd(m, a))
                boot == StepAt(IoBootstrap)
            IN /\ m # NoPeer =>
                     /\ (dial > 0 /\ a \in dialed["S"] /\ BootstrapStarted) <=>
                           mailboxes = MailboxesNew(Mailbox(m, a))
                     /\ mailboxes \in {MailboxesNew(Mailbox(m, a)), NoMailboxes}
                     /\ mailboxes.some =>
                           /\ Registered(mailboxes) = {m}
                           /\ GetDefault(mailboxes) = m
                     /\ add > 0 => dial > 0 /\ dial < add /\ a \in dialed["S"]
                     /\ boot > 0 => add > 0 /\ add < boot
                     /\ routing["S"] # {} => add > 0
                     /\ BootstrapStarted => boot > 0
               /\ m = NoPeer =>
                     /\ mailboxes = NoMailboxes
                     /\ last.io = <<>>
                     /\ routing["S"] = {}
                     /\ ~BootstrapStarted)
    /\ [][(Constructed /\ last.peer = NoPeer /\ CallOf("put_record_mailbox")) =>
             /\ last'.res = "Mailbox"
             /\ reqs' = reqs]_vars

\* the construction dialed the bootstrap mailbox, but the DHT refused its
\* address and the bootstrap failed: the session holds no mailbox
C25_Witness ==
    /\ Constructed
    /\ last.peer # NoPeer
    /\ last.io = <<IoDial(last.addr), IoKadAdd(last.peer, last.addr), IoBootstrap>>
    /\ last.addr \in dialed["S"]
    /\ ~BootstrapStarted
    /\ mailboxes = NoMailboxes

----------------------------------------------------------------------------
(* Properties of the default mailbox *)

\* C26: an add_mailbox(peer, addr, is_default) of lib.rs that returns Ok on a
\* session that holds a mailbox keeps the previous default when is_default is
\* false and makes the added mailbox the default when it is true; on a session
\* that holds no mailbox the added mailbox becomes the default whatever the
\* flag is.
C26_IsDefaultFlag ==
    [][(impl = "lib" /\ CallOf("add_mailbox") /\ last'.res = "Ok") =>
          /\ last'.peer \in Registered(mailboxes')
          /\ (mailboxes.some /\ ~last'.is_default) =>
                GetDefault(mailboxes') = GetDefault(mailboxes)
          /\ (mailboxes.some /\ last'.is_default) =>
                GetDefault(mailboxes') = last'.peer
          /\ ~mailboxes.some => GetDefault(mailboxes') = last'.peer]_vars

\* a mailbox added with is_default = true on a session whose default was
\* another mailbox is the default
C26_Witness ==
    /\ impl = "lib"
    /\ last.op = "add_mailbox"
    /\ last.res = "Ok"
    /\ last.is_default
    /\ last.before.some
    /\ GetDefault(last.before) # last.peer
    /\ GetDefault(mailboxes) = last.peer

----------------------------------------------------------------------------
(* Properties of the mailbox handler *)

\* the event the mailbox handler is invoked with in the step
HandledByMailbox(event) == handled'["M"] = Append(handled["M"], event)

\* the entry of the store for a record
Stored(record) == [present |-> TRUE, value |-> record.value, expires |-> record.expires]

\* the expiry a deposit of the client is sent with
ExpiryOf(deposit) == IF deposit[3] = NoExpiry THEN 9000 ELSE deposit[3]

\* C27: when the mailbox handler stores the record of a Publish request, the
\* entry of the store has the key, the value and the expiry of the record
\* received and no other entry changes; every entry of the store is the record
\* of a deposit of the client, with the expiry given to the deposit or with
\* 9000 seconds when the deposit was made without an expiry.
C27_StoredAsReceived ==
    /\ [][\A i \in 1..Len(pending["M"]) :
             (HandledByMailbox(pending["M"][i]) /\ store' # store) =>
                LET event == pending["M"][i]
                IN /\ event.kind = "Request"
                   /\ event.msg.kind = "Publish"
                   /\ store' = [store EXCEPT ![event.msg.key] = Stored(event.msg)]]_vars
    /\ [](\A key \in Keys : store[key].present =>
             \E deposit \in Records :
                /\ deposit[1] = key
                /\ deposit[2] = store[key].value
                /\ store[key].expires = ExpiryOf(deposit))

\* the record deposited without an expiry is held by the mailbox with an
\* expiry of 9000 seconds
C27_Witness ==
    /\ store["foo"] = [present |-> TRUE, value |-> "bar", expires |-> 9000]
    /\ \E i \in 1..Len(handled["M"]) :
          /\ handled["M"][i].kind = "Request"
          /\ handled["M"][i].msg = MailboxRecord("foo", "bar", 9000)

\* the mailbox handler is invoked in the step
MailboxHandlerRuns == handled'["M"] # handled["M"]

\* the step sends a response
ResponseSent == respLog' # respLog \/ ~(resps' \subseteq resps)

\* the step sends a request
RequestSent == nextRid' # nextRid \/ ~(reqs' \subseteq reqs)

\* C28: a response is sent by the mailbox handler only; the handler sends one
\* only when it is invoked with a Publish request whose local put returned ok,
\* which it reports, and the response is the Success result on the channel of
\* that request; the handler sends no request, and invoked with a Ping or a
\* Message request it sends no response.
C28_ResponseOnlyAfterStoredPublish ==
    /\ [][ResponseSent => MailboxHandlerRuns]_vars
    /\ [][MailboxHandlerRuns => ~RequestSent]_vars
    /\ [][\A i \in 1..Len(pending["M"]) :
             HandledByMailbox(pending["M"][i]) =>
                LET event == pending["M"][i]
                    answer == [rid |-> event.rid, resp |-> ResultResponse(Success)]
                IN /\ ResponseSent =>
                         /\ event.kind = "Request"
                         /\ event.msg.kind = "Publish"
                         /\ printed'["M"] =
                               Append(printed["M"],
                                      Report("Successfully stored record.", event.rid,
                                             event.msg.key, event.msg.value))
                         /\ store'[event.msg.key] = Stored(event.msg)
                         /\ respLog' = Append(respLog, answer)
                         /\ resps' = resps \cup {answer}
                   /\ (event.kind = "Request" /\ event.msg.kind \in {"Ping", "Message"}) =>
                         ~ResponseSent]_vars

\* the mailbox handler was invoked with a Ping and with a Publish whose put
\* failed, and sent no response
C28_Witness ==
    /\ \E i \in 1..Len(handled["M"]) :
          handled["M"][i].kind = "Request" /\ handled["M"][i].msg.kind = "Ping"
    /\ \E i \in 1..Len(handled["M"]) :
          /\ handled["M"][i].kind = "Request"
          /\ handled["M"][i].msg.kind = "Publish"
          /\ StoreFailed(handled["M"][i].rid)
    /\ respLog = <<>>

----------------------------------------------------------------------------
(* Properties of the mailbox's driving loop *)

\* C29: the driving loop of the mailbox is suspended only after a poll of the
\* swarm that reported Pending; the step that suspends it finds no event ready,
\* every event produced before was printed, in the order of the stream, and
\* none is lost; the loop has completed only after a poll reported the end of
\* the stream, and once completed it stays so.
C29_SuspendsOnlyOnPending ==
    /\ [](drive.pc = "suspended" => drive.polled = "Pending" /\ drive.listening)
    /\ [](drive.log \o stream.ready = stream.all)
    /\ [][(drive.pc = "polling" /\ drive'.pc = "suspended") =>
             /\ stream.ready = <<>>
             /\ ~stream.ended
             /\ drive'.log = stream.all
             /\ stream' = stream]_vars
    /\ [](drive.pc = "completed" =>
             /\ drive.polled = "None"
             /\ stream.ended
             /\ drive.log = stream.all)
    /\ [][drive.pc = "completed" => drive'.pc = "completed"]_vars
    /\ [][(drive.pc # "completed" /\ drive'.pc = "completed") => stream.ended]_vars

\* the stream produced two events: the loop printed both, found no further
\* event ready and suspended
C29_Witness ==
    /\ drive.pc = "suspended"
    /\ drive.polled = "Pending"
    /\ Len(drive.log) = 2
    /\ stream.all = drive.log
    /\ stream.ready = <<>>

----------------------------------------------------------------------------
(* Properties of the depositing client *)

\* C30: the depositing client does not wait forever: until it has stopped, a
\* step of it, of the transport or of the mailbox is possible; when
\* put_record_mailbox or add_mailbox returned an error it has stopped without
\* receiving an event; its waiting loop receives no event after a
\* ConnectionClosed; and when it has received ConnectionClosed, the handler of
\* S was invoked with the Response or the failure of the publish request.
C30_DepositClientTerminates ==
    /\ [](PutClientPc = "stopped" \/ ENABLED PutNext)
    /\ []((calls > 0 /\ last.res # "Ok") => PutClientPc = "stopped" /\ waited = <<>>)
    /\ [](\A i \in 1..Len(waited) : waited[i] = ConnectionClosed => i = Len(waited))
    /\ [](LoopLeft => OutcomeHandled(last.rid))

====
